---- MODULE Spec2Model ----
(***************************************************************************)
(* CronJob-Report: WhatsApp session lifecycle and delivery assurance.      *)
(*                                                                         *)
(* The session part models the Baileys WAClient (src/src/wa/WAClient.js,   *)
(* lines 842-1496): initialize(), the connection.update handler, the       *)
(* reconnect / init-retry / QR-timeout timers, destroy() and               *)
(* waitForReady().  Every handler is one atomic action (JavaScript runs a  *)
(* callback to completion); initialize() is split at its await.            *)
(* A socket that was ended or that reported 'close' emits nothing more.    *)
(*                                                                         *)
(* The delivery part models WAService.sendMessage / destroy and the        *)
(* WAMessageQueue (src/unnamed/part_004) with its Bottleneck limiter:      *)
(* reservoir, minTime spacing, one job at a time, the 'failed' handler's   *)
(* retries.  Limiter time is in ms, kept as the time left to each timer.   *)
(*                                                                         *)
(* Spec      the session with one waitForReady caller;                     *)
(* SpecWait  concurrent waitForReady callers;                              *)
(* SpecQueue single sends through the queue while the session comes and    *)
(*           goes;                                                         *)
(* SpecBurst a batch of reservoir + 1 sends;                               *)
(* SpecRateLimit sends of a ready session that meet rate-limit errors;     *)
(* SpecDedup the WAMessageDeduplicator (src/unnamed/part_003) under direct *)
(*           calls, its time in ms kept relative to now;                   *)
(* SpecInbound inbound messages through WAService._handleIncomingMessage;  *)
(* SpecPairing a session that is never paired, its timers being fair;     *)
(* SpecRegistry WAService's registry under createClient and destroy();     *)
(* SpecCompat the service module (src/src/service/waService.js lines 1-75) *)
(*           and its exported handles;                                     *)
(* SpecInitService explicit initialization requests;                       *)
(* SpecReadiness waitForClientReady of the whatsapp-web.js service         *)
(*           (src/src/service/waService.js from line 78 on);               *)
(* SpecFallbackCheck that service's fallback readiness check;              *)
(* SpecReconnect the Baileys session's timers that call initialize();     *)
(* SpecWeb   the whatsapp-web.js WAClient (src/src/wa/WAClient.js lines    *)
(*           36-529) with one waitForReady caller;                         *)
(* SpecCron  the activation of a cron bucket (src/app.js lines 19-60).     *)
(***************************************************************************)
EXTENDS Integers, Naturals, FiniteSets, Sequences, TLC

\* ------------------------------------------------------------------ bounds
\* concurrent waitForReady calls (SpecWait), and callers of it in Spec
MaxWaiters == 2
SessionWaiters == 1
\* pending timers whose handle was overwritten, per handle
MaxOrphans == 1
\* initialize() invocations suspended at their await
MaxInFlight == 2
\* live sockets that this.socket no longer references
MaxLeaked == 1
\* messages of a batch (SpecBurst), and single sends (SpecQueue)
MaxMsgs == 41
QueueMsgs == 2
\* messages submitted in SpecRateLimit
RetryMsgs == 3
\* deduplication keys, and those of the inbound messages in SpecInbound
MaxKeys == 2
InboundKeys == 1
\* ms after a sweep tick at which calls are made
MaxTick == 2
\* concurrent waitForClientReady calls
MaxCallers == 2
\* client.connect / client.reinitialize calls made by the service
MaxRecoveries == 3
\* session objects ever created, and the ids they are created for
MaxSessions == 4
MaxIds == 2
\* initializeWAService calls
MaxRequests == 3
\* pending timers that call initialize(), and pending QR-timeout timers, of the
\* whatsapp-web.js client
MaxInitTimers == 2
MaxQrTimers == 2
\* cron modules of a bucket
MaxModules == 3
\* ms that pass at once while no limiter timer is due
IdleStep == 20000

\* ------------------------------------------------------- program constants
maxReconnectAttempts == 5
maxInitRetries == 3

loggedOut == 401
forbidden == 403
multideviceMismatch == 411
connectionClosed == 428
connectionLost == 408
timedOut == 408
connectionReplaced == 440
badSession == 500
restartRequired == 515
unavailableService == 503
\* a status code that is in no DisconnectReason entry, and the absent code
unrecognizedCode == 999
undefinedCode == 0

\* WAMessageQueue options (unnamed/part_004 lines 12-16) and its 'failed' handler
minTime == 350
maxConcurrent == 1
reservoir == 40
maxFallbackStateRetries == 3
maxFallbackReinitAttempts == 2
maxUnknownStateEscalationRetries == 2
reservoirRefreshAmount == 40
reservoirRefreshInterval == 60000
maxRetries == 3
retryDelayUnit == 1000
\* the handler returns nothing: no retry
NoRetry == -1

windowMs ==
    reservoirRefreshInterval

\* WAMessageDeduplicator options (unnamed/part_003 lines 9-10)
ttl ==
    24 * 60 * 60 * 1000

cleanupInterval ==
    60 * 60 * 1000

StatusCodes ==
    {loggedOut, forbidden, multideviceMismatch, connectionClosed, connectionLost,
     timedOut, connectionReplaced, badSession, restartRequired,
     unavailableService, unrecognizedCode, undefinedCode}

Waiters ==
    1..MaxWaiters

Keys ==
    1..MaxKeys

Callers ==
    1..MaxCallers

Sessions ==
    1..MaxSessions

\* 1 is 'wa-client', 2 is 'wa-gateway'
ClientIds ==
    1..MaxIds

Requests ==
    1..MaxRequests

Modules ==
    1..MaxModules

\* what calls activateBucket: the 'ready' listener and the waitForWaReady chain
Triggers ==
    {"ready-event", "waitForWaReady"}

EntryPoints ==
    {"waClient.sendMessage", "waClient.waitForWaReady", "waitForWaReady"}

SendErrors ==
    {"rate_limit", "other"}

\* ------------------------------------------------------------------- state
VARIABLES
    \* WAClient fields
    socket,             \* "null" | "connecting" | "open" | "ended" (handle kept, socket dead)
    isReady, isInitializing, authenticated, qrScanned,
    reconnectAttempts, initRetries,
    lastError,          \* "none" | "init" | "timeout"
    qrTimeoutTimer,     \* "pending": the handle references a pending timer;
    reconnectTimer,     \* "null": it is null or references a timer that has fired
    \* runtime state that no field references
    qrOrphans,          \* pending QR-timeout timers whose handle was overwritten
    rcOrphans,          \* pending timers that call initialize(), handle overwritten
    initInFlight,       \* initialize() invocations suspended at their await
    leakedConnecting,   \* live sockets with handlers attached that this.socket lost
    leakedOpen,
    \* waitForReady calls
    wState,             \* "idle" | "pending" | "resolved" | "rejected" | "timeout" | "threw"
    wReason,            \* reason in the rejection message
    readyListeners,     \* waiters whose once('ready') listener is registered
    disconnectedListeners,
    wTimers,            \* waiters whose timeout timer is pending
    wPolls,             \* waiters whose state-check interval is active
    \* history
    term,               \* "none" | "init" | "ready": a terminal disconnect was handled
    wTermSeen,          \* terminal reason emitted while the wait was pending
    transientSeen,      \* a reconnectable disconnect incremented reconnectAttempts
    \* WAService registry and the WAMessageQueue limiter
    inRegistry,         \* the clients / queues maps hold the client and its queue
    heartbeat,          \* "on" | "off": the limiter's reservoir refresh interval
    reservoirLeft,      \* tokens left in the limiter's reservoir
    refreshIn,          \* ms until the next reservoir refresh
    nextRequestIn,      \* ms until the limiter's next allowed start (minTime spacing)
    running,            \* the message whose job holds the concurrency slot, 0 if none
    jobPhase,           \* "idle" | "scheduled" | "executing"
    jobTimer,           \* ms until the scheduled job executes
    retryCount,         \* jobInfo.retryCount of the running job
    mState,             \* "none" | "refused" | "queued" | "running" | "resolved" | "rejected"
    mError,             \* the error a message was refused or rejected with
    \* history
    mAttempts,          \* executions of each message's job
    retriedOnOther,     \* the limiter retried a job after an error that is no rate limit
    enqueuedWhileNotReady,
    sentWhileNotReady,
    windowAge,          \* ms since the first transport send, -1 before it
    windowStarts,       \* transport sends started less than windowMs after the first
    \* WAMessageDeduplicator and the handlers of WAService
    cache,              \* key -> expiry - now, for the keys the Map holds
    cleanupTimer,       \* "on" | "null": the sweep interval
    cleanupIn,          \* ms until the sweep interval fires
    handling,           \* keys whose handler loop has not returned
    \* history
    asked,              \* key of the latest isDuplicate call, 0 once its answer is dated
    answer,             \* what that call returned
    sinceMark,          \* ms since the last markProcessed of a key, -1 if never
    sinceHandled,       \* ms since the handlers were last invoked for a key, -1 if never
    handledTwice        \* handlers were invoked for a key again within ttl

clientVars ==
    <<socket, isReady, isInitializing, authenticated, qrScanned, reconnectAttempts,
      initRetries, lastError, qrTimeoutTimer, reconnectTimer, qrOrphans, rcOrphans,
      initInFlight, leakedConnecting, leakedOpen>>

waitVars ==
    <<wState, wReason, readyListeners, disconnectedListeners, wTimers, wPolls>>

histVars ==
    <<term, wTermSeen, transientSeen>>

queueVars ==
    <<inRegistry, heartbeat, reservoirLeft, refreshIn, nextRequestIn, running, jobPhase,
      jobTimer, retryCount, mState, mError>>

queueHist ==
    <<mAttempts, retriedOnOther, enqueuedWhileNotReady, sentWhileNotReady, windowAge,
      windowStarts>>

dedupVars ==
    <<cache, cleanupTimer, cleanupIn, handling, asked, answer, sinceMark, sinceHandled,
      handledTwice>>

\* Readiness bookkeeping of the service for one client: state.ready, the
\* registered readyResolvers, what the transport would answer right now, whether
\* its 'ready' event is still to be delivered, and each waitForClientReady
\* call's position and the answer it is about to resume with.
VARIABLES ready, readyResolvers, transport, readyEventDue, callPc, callAnswer

readinessVars ==
    <<ready, readyResolvers, transport, readyEventDue, callPc, callAnswer>>

\* What markClientReady and the event handlers touch besides: the two flags of
\* the fallback check, awaitingQrScan and the authenticated-fallback timer.
VARIABLES fallbackCheckCompleted, fallbackCheckInFlight, awaitingQrScan,
          authenticatedReadyFallbackTimer

markVars ==
    <<fallbackCheckCompleted, fallbackCheckInFlight, awaitingQrScan,
      authenticatedReadyFallbackTimer>>

\* The fallback readiness check of one client: where its timer chain stands,
\* where the authenticated-fallback callback stands, the retry and reinit
\* counters, whether the client reports a connect in flight and for how long,
\* and the recovery calls (client.connect / client.reinitialize) made so far.
VARIABLES checkPc, authFallbackPc, fallbackStateRetryCount, fallbackReinitCount,
          unknownStateRetryCount, connectInFlight, recoveryCalls, lastRecovery

checkVars ==
    <<checkPc, authFallbackPc, fallbackStateRetryCount, fallbackReinitCount,
      unknownStateRetryCount, connectInFlight, recoveryCalls, lastRecovery>>

\* The auth-failure indicators of the readiness state: lastDisconnectReason
\* ("null", a logout-style reason or another one) and lastAuthFailureAt ("null"
\* or "set").
VARIABLES lastDisconnectReason, lastAuthFailureAt

indicatorVars ==
    <<lastDisconnectReason, lastAuthFailureAt>>

\* The rest of one client's monitor: lastQrAt ("null", "recent": within
\* qrAwaitingReinitGraceMs of now, "old"), the clearAuthSession option of the
\* last recovery call, and the pending timeouts of the fallback check and of
\* its cooldown.
VARIABLES lastQrAt, clearAuthSession, fallbackTimers, cooldownTimers

monitorVars ==
    <<lastQrAt, clearAuthSession, fallbackTimers, cooldownTimers>>

legacyVars ==
    <<readinessVars, markVars, checkVars, indicatorVars, monitorVars>>

\* WAService's registry: the session objects in the insertion order of the
\* clients map (the queues map holds the same keys in the same order, a
\* session's queue being the object of the same number), the id each object was
\* created for (0: not created), the objects destroy() was called on, the
\* queues disconnect() was called on, where a running WAService.destroy()
\* stands and at which entry, and what the last createClient returned.
VARIABLES clients, sessId, destroyed, disconnected, destroyPc, destroyIdx, lastReturned

registryVars ==
    <<clients, sessId, destroyed, disconnected, destroyPc, destroyIdx, lastReturned>>

\* The service module: initPromise, the handle behind the waClient proxy and the
\* client it captured, the createClient / initializeClient calls made, the
\* promise each initializeWAService call returned, and what the last use of
\* each entry point came to.
VARIABLES initPromise, waClientHandle, compatClient, createCalls, initializeCalls, reqState,
          useResult

initVars ==
    <<initPromise, waClientHandle, compatClient, createCalls, initializeCalls, reqState,
      useResult>>

\* The whatsapp-web.js WAClient (src/wa/WAClient.js lines 36-529): its fields
\* client, isReady, isInitializing, authenticated, initRetries and
\* reconnectAttempts; where the initialize() in flight and the handler that
\* awaits client.destroy() stand; the pending timers that call initialize() and
\* the pending QR-timeout timers, and whether the one of the call in flight is
\* among them; the state of the page and whether its 'ready' event is due; the
\* waitForReady call, where a tick of its poll stands ("asking", or the answer
\* it resumes with), and whether 'disconnected' was handled since that tick.
VARIABLES webClient, webIsReady, webIsInitializing, webAuthenticated, webInitRetries,
          webReconnectAttempts, webInitPc, webHandlerPc, webInitTimers, webQrTimers,
          webOwnQrTimer, webState, webReadyDue, webWait, webPollPc,
          disconnectedSinceQuery

webVars ==
    <<webClient, webIsReady, webIsInitializing, webAuthenticated, webInitRetries,
      webReconnectAttempts, webInitPc, webHandlerPc, webInitTimers, webQrTimers,
      webOwnQrTimer, webState, webReadyDue, webWait, webPollPc, disconnectedSinceQuery>>

\* app.js: loadedCronModules, the modules each trigger's loadCronModules call
\* is importing, how often each module went through its activation, and what
\* each trigger's last call reported.
VARIABLES loadedCronModules, importing, activations, bucketStatus

cronVars ==
    <<loadedCronModules, importing, activations, bucketStatus>>

appVars ==
    <<webVars, cronVars>>

serviceVars ==
    <<legacyVars, registryVars, initVars, appVars>>

\* The Baileys session, its queue and its deduplicator.
sessionVars ==
    <<clientVars, waitVars, histVars, queueVars, queueHist, dedupVars>>

\* Everything but the readiness bookkeeping of the whatsapp-web.js service.
coreVars ==
    <<sessionVars, registryVars, initVars, appVars>>

vars ==
    <<clientVars, waitVars, histVars, queueVars, queueHist, dedupVars, serviceVars>>

\* ------------------------------------------------- disconnect classification
\* The if/else chain of the close handler: the first matching entry wins.
ReasonOf(statusCode) ==
    IF statusCode = loggedOut THEN "LOGGED_OUT"
    ELSE IF statusCode = forbidden THEN "FORBIDDEN"
    ELSE IF statusCode = multideviceMismatch THEN "MULTIDEVICE_MISMATCH"
    ELSE IF statusCode = connectionClosed THEN "CONNECTION_CLOSED"
    ELSE IF statusCode = connectionLost THEN "CONNECTION_LOST"
    ELSE IF statusCode = timedOut THEN "TIMED_OUT"
    ELSE IF statusCode = connectionReplaced THEN "CONNECTION_REPLACED"
    ELSE IF statusCode = badSession THEN "BAD_SESSION"
    ELSE IF statusCode = restartRequired THEN "RESTART_REQUIRED"
    ELSE IF statusCode = unavailableService THEN "UNAVAILABLE_SERVICE"
    ELSE "UNKNOWN"

\* A close handler that leaves shouldReconnect set for a replaced connection.
ShouldReconnect_ReplacedReconnects(statusCode) ==
    statusCode \notin {loggedOut, forbidden, multideviceMismatch, badSession}

ShouldReconnect(statusCode) ==
    statusCode \notin {loggedOut, forbidden, multideviceMismatch,
                       connectionReplaced, badSession}

noReconnectReasons ==
    {"LOGGED_OUT", "UNPAIRED", "FORBIDDEN", "MULTIDEVICE_MISMATCH",
     "CONNECTION_REPLACED", "BAD_SESSION"}

\* ------------------------------------------------------------------ timers
\* setTimeout stored in a handle: a still pending timer of the old handle is orphaned.
OrphansAfterSet(handle, orphans) ==
    IF handle = "pending" THEN orphans + 1 ELSE orphans

CanSet(handle, orphans) ==
    handle = "pending" => orphans < MaxOrphans

\* if (handle) { clearTimeout(handle); handle = null }
Cleared(handle) ==
    "null"

\* ------------------------------------------------- EventEmitter and waiters
\* cleanup() of waiter set ws, then each of them settles with `outcome`.
\* removeAllListeners drops every 'ready' and 'disconnected' listener.
SettleWaiters(ws, outcome, reason) ==
    /\ wState' = [w \in Waiters |-> IF w \in ws THEN outcome ELSE wState[w]]
    /\ wReason' = [w \in Waiters |-> IF w \in ws THEN reason ELSE wReason[w]]
    /\ wTimers' = wTimers \ ws
    /\ wPolls' = wPolls \ ws
    /\ readyListeners' = IF ws = {} THEN readyListeners ELSE {}
    /\ disconnectedListeners' = IF ws = {} THEN disconnectedListeners ELSE {}

\* this.emit('ready'): emit runs the listeners registered when it starts.
EmitReady ==
    SettleWaiters(readyListeners, "resolved", "none")

\* this.emit('disconnected', reason)
EmitDisconnected(reason) ==
    SettleWaiters(disconnectedListeners, "rejected", reason)

NoteDisconnect(reason) ==
    wTermSeen' = [w \in Waiters |->
                    IF reason \in noReconnectReasons /\ wState[w] = "pending"
                    THEN reason ELSE wTermSeen[w]]

\* -------------------------------------------------------------- initialize
\* initialize() up to its first await (lines 905-933).
InitializeCall(cause) ==
    IF isInitializing \/ isReady
    THEN UNCHANGED <<socket, isInitializing, initInFlight, term>>
    ELSE /\ isInitializing' = TRUE
         /\ socket' = "null"
         /\ initInFlight' = initInFlight + 1
         /\ term' = IF cause = "external" THEN "none" ELSE term

\* An explicit call by an external caller (WAService.initializeClient).
Initialize ==
    /\ ~(isInitializing \/ isReady)
    /\ initInFlight < MaxInFlight
    /\ InitializeCall("external")
    /\ UNCHANGED <<isReady, authenticated, qrScanned, reconnectAttempts, initRetries,
                   lastError, qrTimeoutTimer, reconnectTimer, qrOrphans, rcOrphans,
                   leakedConnecting, leakedOpen>>
    /\ UNCHANGED <<waitVars, wTermSeen, transientSeen>>
    /\ UNCHANGED <<queueVars, queueHist, dedupVars, serviceVars>>

\* initialize() resumes after useMultiFileAuthState / fetchLatestBaileysVersion:
\* makeWASocket, _setupEventHandlers, QR timeout (lines 934-967).
InitializeSucceeds ==
    /\ initInFlight > 0
    /\ CanSet(qrTimeoutTimer, qrOrphans)
    /\ socket \in {"connecting", "open"} => leakedConnecting + leakedOpen < MaxLeaked
    /\ initInFlight' = initInFlight - 1
    /\ leakedConnecting' = IF socket = "connecting" THEN leakedConnecting + 1
                           ELSE leakedConnecting
    /\ leakedOpen' = IF socket = "open" THEN leakedOpen + 1 ELSE leakedOpen
    /\ socket' = "connecting"
    /\ qrOrphans' = OrphansAfterSet(qrTimeoutTimer, qrOrphans)
    /\ qrTimeoutTimer' = "pending"
    /\ initRetries' = 0
    /\ lastError' = "none"
    /\ UNCHANGED <<isReady, isInitializing, authenticated, qrScanned, reconnectAttempts,
                   reconnectTimer, rcOrphans>>
    /\ UNCHANGED <<waitVars, histVars>>
    /\ UNCHANGED <<queueVars, queueHist, dedupVars, serviceVars>>

\* The try block throws (lines 968-992).
InitializeFails ==
    /\ initInFlight > 0
    /\ initRetries < maxInitRetries => CanSet(reconnectTimer, rcOrphans)
    /\ initInFlight' = initInFlight - 1
    /\ lastError' = "init"
    /\ isInitializing' = FALSE
    /\ IF initRetries < maxInitRetries
       THEN /\ initRetries' = initRetries + 1
            /\ rcOrphans' = OrphansAfterSet(reconnectTimer, rcOrphans)
            /\ reconnectTimer' = "pending"
       ELSE UNCHANGED <<initRetries, rcOrphans, reconnectTimer>>
    /\ UNCHANGED <<socket, isReady, authenticated, qrScanned, reconnectAttempts,
                   qrTimeoutTimer, qrOrphans, leakedConnecting, leakedOpen>>
    /\ UNCHANGED <<waitVars, histVars>>
    /\ UNCHANGED <<queueVars, queueHist, dedupVars, serviceVars>>

\* ---------------------------------------------------- connection.update
\* which live socket emits: the one this.socket references, or a leaked one
Emitters(phase) ==
    (IF socket = phase THEN {"current"} ELSE {})
    \cup (IF phase = "connecting" /\ leakedConnecting > 0 THEN {"leaked"} ELSE {})
    \cup (IF phase = "open" /\ leakedOpen > 0 THEN {"leaked"} ELSE {})

\* update.qr (lines 1005-1010)
OnQr ==
    /\ Emitters("connecting") # {}
    /\ qrScanned
    /\ qrScanned' = FALSE
    /\ UNCHANGED <<socket, isReady, isInitializing, authenticated, reconnectAttempts,
                   initRetries, lastError, qrTimeoutTimer, reconnectTimer, qrOrphans,
                   rcOrphans, initInFlight, leakedConnecting, leakedOpen>>
    /\ UNCHANGED <<waitVars, histVars>>
    /\ UNCHANGED <<queueVars, queueHist, dedupVars, serviceVars>>

ResetCounters_KeepAttempts ==
    /\ UNCHANGED reconnectAttempts
    /\ initRetries' = 0

\* Reset reconnect attempts on successful connection (lines 1018-1019)
ResetCounters ==
    /\ reconnectAttempts' = 0
    /\ initRetries' = 0

\* connection === 'open' (lines 1012-1030)
OnOpen ==
    \E e \in Emitters("connecting") :
        /\ IF e = "current"
           THEN socket' = "open" /\ UNCHANGED <<leakedConnecting, leakedOpen>>
           ELSE /\ leakedConnecting' = leakedConnecting - 1
                /\ leakedOpen' = leakedOpen + 1
                /\ UNCHANGED socket
        /\ isReady' = TRUE
        /\ isInitializing' = FALSE
        /\ authenticated' = TRUE
        /\ qrScanned' = TRUE
        /\ ResetCounters
        /\ qrTimeoutTimer' = IF qrTimeoutTimer # "null" THEN Cleared(qrTimeoutTimer)
                             ELSE qrTimeoutTimer
        /\ EmitReady
        /\ UNCHANGED <<lastError, reconnectTimer, qrOrphans, rcOrphans, initInFlight,
                       term, wTermSeen, transientSeen>>
        /\ UNCHANGED <<queueVars, queueHist, dedupVars, serviceVars>>

\* _handleReconnection(reason) (lines 1189-1217)
HandleReconnection(reason) ==
    IF reason \in noReconnectReasons \/ reconnectAttempts >= maxReconnectAttempts
    THEN UNCHANGED <<reconnectAttempts, reconnectTimer, rcOrphans, transientSeen>>
    ELSE /\ reconnectAttempts' = reconnectAttempts + 1
         /\ rcOrphans' = OrphansAfterSet(reconnectTimer, rcOrphans)
         /\ reconnectTimer' = "pending"
         /\ transientSeen' = TRUE

CloseFlags_Kept ==
    /\ isInitializing' = FALSE
    /\ UNCHANGED <<isReady, authenticated>>

\* The close handler resets the flags (lines 1035-1037) before it emits
\* 'disconnected' (line 1080).
CloseFlags ==
    /\ isReady' = FALSE
    /\ isInitializing' = FALSE
    /\ authenticated' = FALSE

\* connection === 'close' (lines 1033-1088)
OnClose(statusCode) ==
    \E phase \in {"connecting", "open"} : \E e \in Emitters(phase) :
        /\ (ShouldReconnect(statusCode) /\ reconnectAttempts < maxReconnectAttempts)
              => CanSet(reconnectTimer, rcOrphans)
        /\ IF e = "current"
           THEN socket' = "ended" /\ UNCHANGED <<leakedConnecting, leakedOpen>>
           ELSE /\ leakedConnecting' = IF phase = "connecting" THEN leakedConnecting - 1
                                       ELSE leakedConnecting
                /\ leakedOpen' = IF phase = "open" THEN leakedOpen - 1 ELSE leakedOpen
                /\ UNCHANGED socket
        /\ CloseFlags
        /\ EmitDisconnected(ReasonOf(statusCode))
        /\ NoteDisconnect(ReasonOf(statusCode))
        /\ IF ShouldReconnect(statusCode)
           THEN /\ HandleReconnection(ReasonOf(statusCode))
                /\ UNCHANGED term
           ELSE /\ UNCHANGED <<reconnectAttempts, reconnectTimer, rcOrphans, transientSeen>>
                /\ term' = IF isReady THEN "ready" ELSE "init"
        /\ UNCHANGED <<qrScanned, initRetries, lastError, qrTimeoutTimer, qrOrphans,
                       initInFlight>>
        /\ UNCHANGED <<queueVars, queueHist, dedupVars, serviceVars>>

\* ------------------------------------------------------------ timer callbacks
\* _handleInitializationTimeout(reason) (lines 1222-1255)
HandleInitializationTimeout ==
    /\ isInitializing' = FALSE
    /\ socket' = "null"
    /\ IF initRetries < maxInitRetries
       THEN /\ initRetries' = initRetries + 1
            /\ rcOrphans' = OrphansAfterSet(reconnectTimer, rcOrphans)
            /\ reconnectTimer' = "pending"
            /\ UNCHANGED lastError
       ELSE /\ lastError' = "timeout"
            /\ UNCHANGED <<initRetries, rcOrphans, reconnectTimer>>

\* The QR timeout callback of initialize() (lines 958-963); `which` is the timer
\* the handle references or an orphaned one.
QrTimeoutFires(which) ==
    /\ (~authenticated /\ ~isReady /\ initRetries < maxInitRetries)
          => CanSet(reconnectTimer, rcOrphans)
    /\ IF which = "handle"
       THEN qrTimeoutTimer = "pending" /\ qrTimeoutTimer' = "null" /\ UNCHANGED qrOrphans
       ELSE qrOrphans > 0 /\ qrOrphans' = qrOrphans - 1 /\ UNCHANGED qrTimeoutTimer
    /\ IF ~authenticated /\ ~isReady
       THEN HandleInitializationTimeout
       ELSE UNCHANGED <<isInitializing, socket, initRetries, rcOrphans, reconnectTimer,
                        lastError>>
    /\ UNCHANGED <<isReady, authenticated, qrScanned, reconnectAttempts, initInFlight,
                   leakedConnecting, leakedOpen>>
    /\ UNCHANGED <<waitVars, histVars>>
    /\ UNCHANGED <<queueVars, queueHist, dedupVars, serviceVars>>

\* The callbacks of the init-retry, reconnect and timeout-retry timers
\* (lines 979-986, 1210-1216, 1241-1248): await this.initialize().
ReconnectTimerFires(which) ==
    /\ initInFlight < MaxInFlight
    /\ IF which = "handle"
       THEN reconnectTimer = "pending" /\ reconnectTimer' = "null" /\ UNCHANGED rcOrphans
       ELSE rcOrphans > 0 /\ rcOrphans' = rcOrphans - 1 /\ UNCHANGED reconnectTimer
    /\ InitializeCall("timer")
    /\ UNCHANGED <<isReady, authenticated, qrScanned, reconnectAttempts, initRetries,
                   lastError, qrTimeoutTimer, qrOrphans, leakedConnecting, leakedOpen>>
    /\ UNCHANGED <<waitVars, wTermSeen, transientSeen>>
    /\ UNCHANGED <<queueVars, queueHist, dedupVars, serviceVars>>

\* ----------------------------------------------------------------- destroy
\* destroy() (lines 1367-1391)
DestroyClient ==
    /\ qrTimeoutTimer' = IF qrTimeoutTimer # "null" THEN Cleared(qrTimeoutTimer)
                         ELSE qrTimeoutTimer
    /\ reconnectTimer' = IF reconnectTimer # "null" THEN Cleared(reconnectTimer)
                         ELSE reconnectTimer
    /\ IF socket # "null"
       THEN socket' = "null" /\ isReady' = FALSE /\ isInitializing' = FALSE
       ELSE UNCHANGED <<socket, isReady, isInitializing>>
    /\ UNCHANGED <<authenticated, qrScanned, reconnectAttempts, initRetries, lastError,
                   qrOrphans, rcOrphans, initInFlight, leakedConnecting, leakedOpen>>

\* client.destroy() called on its own
Destroy ==
    /\ DestroyClient
    /\ UNCHANGED <<waitVars, histVars, queueVars, queueHist, dedupVars, serviceVars>>

\* ------------------------------------------------------------ waitForReady
\* getState() (lines 1318-1340): the outcomes the socket's websocket allows
GetStateResults ==
    IF socket = "null" THEN {"NOT_INITIALIZED"}
    ELSE IF socket = "open" THEN {"CONNECTED"}
    ELSE IF socket = "connecting" THEN {"CONNECTING", "CONNECTED"}
    ELSE {"DISCONNECTED"}

\* waitForReady(timeout) up to the returned promise (lines 1397-1409, 1457, 1482-1491)
WaitForReady(w) ==
    /\ wState[w] # "pending"
    /\ IF isReady
       THEN /\ wState' = [wState EXCEPT ![w] = "resolved"]
            /\ UNCHANGED <<readyListeners, disconnectedListeners, wTimers, wPolls>>
       ELSE IF socket = "null"
       THEN /\ wState' = [wState EXCEPT ![w] = "threw"]
            /\ UNCHANGED <<readyListeners, disconnectedListeners, wTimers, wPolls>>
       ELSE /\ wState' = [wState EXCEPT ![w] = "pending"]
            /\ readyListeners' = readyListeners \cup {w}
            /\ disconnectedListeners' = disconnectedListeners \cup {w}
            /\ wTimers' = wTimers \cup {w}
            /\ wPolls' = wPolls \cup {w}
    /\ wReason' = [wReason EXCEPT ![w] = "none"]
    /\ wTermSeen' = [wTermSeen EXCEPT ![w] = "none"]
    /\ wState'[w] # wState[w] \/ wReason[w] # "none" \/ wTermSeen[w] # "none"
    /\ UNCHANGED <<clientVars, term, transientSeen>>
    /\ UNCHANGED <<queueVars, queueHist, dedupVars, serviceVars>>

\* The timeout callback (lines 1411-1444)
WaitTimeout(w) ==
    /\ w \in wTimers
    /\ SettleWaiters({w}, "timeout", "none")
    /\ UNCHANGED <<clientVars, histVars>>
    /\ UNCHANGED <<queueVars, queueHist, dedupVars, serviceVars>>

\* The message the timeout callback rejects with (lines 1411-1442), by clause:
\* the state named after "Current state:", the sentence after "Authentication
\* status:", the text after "Last error:", the causes and suggestions.
TimeoutMessage ==
    [state |-> IF isInitializing THEN "initializing" ELSE "unknown",
     authentication |->
         IF ~authenticated /\ ~qrScanned THEN "not_authenticated"
         ELSE IF authenticated /\ ~isReady THEN "authenticated_not_ready"
         ELSE "absent",
     lastError |-> IF lastError # "none" THEN lastError ELSE "absent",
     remediation |-> "causes_and_suggestions"]

\* The state-check interval callback (lines 1457-1480) when it marks the client ready
WaitPollReady(w) ==
    /\ w \in wPolls
    /\ authenticated /\ ~isReady
    /\ "CONNECTED" \in GetStateResults
    /\ isReady' = TRUE
    /\ isInitializing' = FALSE
    /\ SettleWaiters({w}, "resolved", "none")
    /\ UNCHANGED <<socket, authenticated, qrScanned, reconnectAttempts, initRetries,
                   lastError, qrTimeoutTimer, reconnectTimer, qrOrphans, rcOrphans,
                   initInFlight, leakedConnecting, leakedOpen>>
    /\ UNCHANGED <<term, wTermSeen, transientSeen>>
    /\ UNCHANGED <<queueVars, queueHist, dedupVars, serviceVars>>

\* ------------------------------------------------- WAMessageQueue / limiter
\* The messages callers have submitted so far, in submission order.
Msgs ==
    DOMAIN mState

Queued(ms) ==
    {m \in DOMAIN ms : ms[m] = "queued"}

RunningCount ==
    IF running = 0 THEN 0 ELSE 1

LastQueued(ms) ==
    CHOOSE q \in Queued(ms) : \A k \in Queued(ms) : q >= k

\* The limiter's queue is first in, first out: all jobs have the same priority.
FirstQueued(ms) ==
    CHOOSE q \in Queued(ms) : \A k \in Queued(ms) : q <= k

\* The limiter starts the first queued job when the concurrency slot is free and
\* the reservoir holds a token: it takes the token and spaces the start by minTime.
\* ms, res: message states and reservoir as the calling handler leaves them.
Drain(ms, res) ==
    IF res >= 1 /\ Queued(ms) # {}
    THEN LET m == FirstQueued(ms)
         IN  /\ mState' = [ms EXCEPT ![m] = "running"]
             /\ reservoirLeft' = res - 1
             /\ running' = m
             /\ jobPhase' = "scheduled"
             /\ jobTimer' = nextRequestIn
             /\ nextRequestIn' = nextRequestIn + minTime
             /\ retryCount' = 0
    ELSE /\ mState' = ms
         /\ reservoirLeft' = res
         /\ running' = 0
         /\ jobPhase' = "idle"
         /\ jobTimer' = 0
         /\ retryCount' = 0
         /\ UNCHANGED nextRequestIn

\* The concurrency slot is taken: queued jobs wait.
KeepJob(ms, res) ==
    /\ mState' = ms
    /\ reservoirLeft' = res
    /\ UNCHANGED <<running, jobPhase, jobTimer, nextRequestIn, retryCount>>

DrainAll(ms, res) ==
    IF RunningCount < maxConcurrent THEN Drain(ms, res) ELSE KeepJob(ms, res)

\* WAService.sendMessage finds the client and its queue; schedule() requires a
\* ready client (part_004 lines 48-50).
ScheduleAccepts ==
    inRegistry /\ isReady

RefusalError ==
    IF inRegistry THEN "not_ready" ELSE "not_found"

\* n calls of WAService.sendMessage in one turn of the event loop.
SendBatch(n, limit) ==
    LET entry == IF ScheduleAccepts THEN "queued" ELSE "refused"
        error == IF ScheduleAccepts THEN "none" ELSE RefusalError
        ms == mState \o [i \in 1..n |-> entry]
    IN  /\ n >= 1
        /\ Len(mState) + n <= limit
        /\ mError' = mError \o [i \in 1..n |-> error]
        /\ mAttempts' = mAttempts \o [i \in 1..n |-> 0]
        /\ DrainAll(ms, reservoirLeft)
        /\ enqueuedWhileNotReady' = (enqueuedWhileNotReady \/ (ScheduleAccepts /\ ~isReady))
        /\ UNCHANGED <<inRegistry, heartbeat, refreshIn>>
        /\ UNCHANGED <<retriedOnOther, sentWhileNotReady, windowAge, windowStarts>>
        /\ UNCHANGED <<clientVars, waitVars, histVars, dedupVars, serviceVars>>

FailedHandler_RateLimitOnly(count, error) ==
    IF error = "rate_limit" /\ count < maxRetries THEN retryDelayUnit * (count + 1)
    ELSE NoRetry

FailedHandler_FixedDelay(count, error) ==
    IF count < maxRetries THEN retryDelayUnit ELSE NoRetry

\* The 'failed' handler (part_004 lines 28-35): the retry delay, or no retry.
FailedHandler(count, error) ==
    IF count < maxRetries THEN retryDelayUnit * (count + 1) ELSE NoRetry

\* The job's task threw `error`: retry after the handler's delay, keeping the
\* concurrency slot, or reject and free the slot.
Failed(error) ==
    IF FailedHandler(retryCount, error) # NoRetry
    THEN /\ retryCount' = retryCount + 1
         /\ jobPhase' = "scheduled"
         /\ jobTimer' = FailedHandler(retryCount, error)
         /\ retriedOnOther' = (retriedOnOther \/ error # "rate_limit")
         /\ UNCHANGED <<mState, mError, reservoirLeft, running, nextRequestIn>>
    ELSE /\ mError' = [mError EXCEPT ![running] = error]
         /\ Drain([mState EXCEPT ![running] = "rejected"], reservoirLeft)
         /\ UNCHANGED retriedOnOther

ClientSendAllowed_Always ==
    TRUE

\* WAClient.sendMessage reaches the socket only when ready (lines 1262-1264).
ClientSendAllowed ==
    isReady

\* The job's timer fires: the task calls client.sendMessage (part_004 lines 55-64).
Execute ==
    /\ jobPhase = "scheduled"
    /\ jobTimer = 0
    /\ mAttempts' = [mAttempts EXCEPT ![running] = @ + 1]
    /\ IF ClientSendAllowed
       THEN /\ jobPhase' = "executing"
            /\ sentWhileNotReady' = (sentWhileNotReady \/ ~isReady)
            /\ windowAge' = IF windowAge = -1 THEN 0 ELSE windowAge
            /\ windowStarts' = IF windowAge < windowMs THEN windowStarts + 1
                               ELSE windowStarts
            /\ UNCHANGED <<mState, mError, reservoirLeft, running, jobTimer,
                           nextRequestIn, retryCount, retriedOnOther>>
       ELSE /\ Failed("not_ready")
            /\ UNCHANGED <<sentWhileNotReady, windowAge, windowStarts>>
    /\ UNCHANGED <<inRegistry, heartbeat, refreshIn, enqueuedWhileNotReady>>
    /\ UNCHANGED <<clientVars, waitVars, histVars, dedupVars, serviceVars>>

SendMessageCatch_DropsReady ==
    /\ isReady' = FALSE
    /\ UNCHANGED <<socket, isInitializing, authenticated, qrScanned, reconnectAttempts,
                   initRetries, lastError, qrTimeoutTimer, reconnectTimer, qrOrphans,
                   rcOrphans, initInFlight, leakedConnecting, leakedOpen>>

\* The catch block of WAClient.sendMessage (lines 1291-1294) logs and rethrows.
SendMessageCatch ==
    UNCHANGED clientVars

\* socket.sendMessage settles: "ok" or an error.
TransportCompletes(outcome) ==
    /\ jobPhase = "executing"
    /\ IF outcome = "ok"
       THEN /\ Drain([mState EXCEPT ![running] = "resolved"], reservoirLeft)
            /\ UNCHANGED <<mError, retriedOnOther>>
       ELSE Failed(outcome)
    /\ UNCHANGED <<inRegistry, heartbeat, refreshIn>>
    /\ UNCHANGED <<mAttempts, enqueuedWhileNotReady, sentWhileNotReady, windowAge,
                   windowStarts>>
    /\ IF outcome = "ok" THEN UNCHANGED clientVars ELSE SendMessageCatch
    /\ UNCHANGED <<waitVars, histVars, dedupVars, serviceVars>>

\* The limiter's heartbeat refills the reservoir every reservoirRefreshInterval,
\* counted from the limiter's construction (part_004 lines 19-25).
Refresh ==
    /\ heartbeat = "on"
    /\ refreshIn = 0
    /\ refreshIn' = reservoirRefreshInterval
    /\ DrainAll(mState, reservoirRefreshAmount)
    /\ UNCHANGED <<inRegistry, heartbeat, mError>>
    /\ UNCHANGED queueHist
    /\ UNCHANGED <<clientVars, waitVars, histVars, dedupVars, serviceVars>>

\* ------------------------------------------------------------------- time
Min2(a, b) ==
    IF a <= b THEN a ELSE b

\* ms until the earliest pending limiter timer; IdleStep when none is pending
NextDeadline ==
    IF jobPhase = "scheduled" /\ heartbeat = "on" THEN Min2(jobTimer, refreshIn)
    ELSE IF jobPhase = "scheduled" THEN jobTimer
    ELSE IF heartbeat = "on" THEN refreshIn
    ELSE IdleStep

ElapseChoices ==
    {NextDeadline} \cup {d \in {IdleStep} : d < NextDeadline}

\* d ms pass without any limiter timer firing
ElapseBy(d) ==
    /\ d > 0
    /\ jobPhase = "scheduled" => d <= jobTimer
    /\ heartbeat = "on" => d <= refreshIn
    /\ jobTimer' = IF jobPhase = "scheduled" THEN jobTimer - d ELSE jobTimer
    /\ refreshIn' = IF heartbeat = "on" THEN refreshIn - d ELSE refreshIn
    /\ nextRequestIn' = IF nextRequestIn > d THEN nextRequestIn - d ELSE 0
    /\ windowAge' = IF windowAge = -1 THEN -1 ELSE Min2(windowAge + d, windowMs)
    /\ <<jobTimer', refreshIn', nextRequestIn', windowAge'>>
         # <<jobTimer, refreshIn, nextRequestIn, windowAge>>
    /\ UNCHANGED <<inRegistry, heartbeat, reservoirLeft, running, jobPhase, retryCount,
                   mState, mError>>
    /\ UNCHANGED <<mAttempts, retriedOnOther, enqueuedWhileNotReady, sentWhileNotReady,
                   windowStarts>>
    /\ UNCHANGED <<clientVars, waitVars, histVars, dedupVars, serviceVars>>

\* Time passes up to the next limiter timer, or by IdleStep when that is sooner.
Elapse ==
    \E d \in ElapseChoices : ElapseBy(d)

\* Time passes only between sends: the transport answers at once.
ElapseBetweenSends ==
    /\ jobPhase # "executing"
    /\ Elapse

\* ------------------------------------------------- WAMessageDeduplicator
IsExpired_AtExpiry(entry) ==
    entry <= 0

\* Date.now() > entry.expiry (part_003 lines 29 and 56), on expiry - now
IsExpired(entry) ==
    entry < 0

\* What isDuplicate(k) returns (part_003 lines 22-35).
isDuplicate(k) ==
    IF k \notin DOMAIN cache THEN FALSE
    ELSE IF IsExpired(cache[k]) THEN FALSE
    ELSE TRUE

\* The Map after isDuplicate(k): an expired entry is deleted (line 30).
AfterIsDuplicate(k) ==
    IF k \in DOMAIN cache /\ IsExpired(cache[k])
    THEN [j \in DOMAIN cache \ {k} |-> cache[j]]
    ELSE cache

markProcessed_Forget(c, k) ==
    c

\* The Map after markProcessed(k): expiry = now + ttl (part_003 lines 40-45).
markProcessed(c, k) ==
    [j \in DOMAIN c \cup {k} |-> IF j = k THEN ttl ELSE c[j]]

\* A caller asks isDuplicate(k).
CallIsDuplicate(k) ==
    /\ asked' = k
    /\ answer' = isDuplicate(k)
    /\ cache' = AfterIsDuplicate(k)
    /\ UNCHANGED <<cleanupTimer, cleanupIn, handling, sinceMark, sinceHandled,
                   handledTwice>>
    /\ UNCHANGED <<clientVars, waitVars, histVars, queueVars, queueHist, serviceVars>>

\* A caller marks k as processed.
CallMarkProcessed(k) ==
    /\ cache' = markProcessed(cache, k)
    /\ sinceMark' = [sinceMark EXCEPT ![k] = 0]
    /\ asked' = 0
    /\ answer' = FALSE
    /\ UNCHANGED <<cleanupTimer, cleanupIn, handling, sinceHandled, handledTwice>>
    /\ UNCHANGED <<clientVars, waitVars, histVars, queueVars, queueHist, serviceVars>>

\* The sweep interval fires (part_003 lines 51-65): expired entries are deleted.
CleanupSweep ==
    /\ cleanupTimer = "on"
    /\ cleanupIn = 0
    /\ cache' = [j \in {i \in DOMAIN cache : ~IsExpired(cache[i])} |-> cache[j]]
    /\ cleanupIn' = cleanupInterval
    /\ UNCHANGED <<cleanupTimer, handling, asked, answer, sinceMark, sinceHandled,
                   handledTwice>>
    /\ UNCHANGED <<clientVars, waitVars, histVars, queueVars, queueHist, serviceVars>>

\* ms since the sweep interval was started or last fired
SweepPhase ==
    cleanupInterval - cleanupIn

\* ages above ttl + 1 are kept as ttl + 2, expiries below -1 as -2
AgeAfter(age, d) ==
    IF age = -1 THEN -1 ELSE Min2(age + d, ttl + 2)

ExpiryAfter(entry, d) ==
    IF entry - d < -2 THEN -2 ELSE entry - d

\* d ms pass without the sweep interval firing
DedupElapse(d) ==
    /\ d > 0
    /\ cleanupTimer = "on"
    /\ d <= cleanupIn
    /\ cleanupIn' = cleanupIn - d
    /\ cache' = [j \in DOMAIN cache |-> ExpiryAfter(cache[j], d)]
    /\ sinceMark' = [k \in Keys |-> AgeAfter(sinceMark[k], d)]
    /\ sinceHandled' = [k \in Keys |-> AgeAfter(sinceHandled[k], d)]
    /\ asked' = 0
    /\ answer' = FALSE
    /\ UNCHANGED <<cleanupTimer, handling, handledTwice>>
    /\ UNCHANGED <<clientVars, waitVars, histVars, queueVars, queueHist, serviceVars>>

\* One ms passes, shortly after a sweep tick.
Tick ==
    /\ SweepPhase < MaxTick
    /\ DedupElapse(1)

\* Time passes until the sweep interval is due.
ElapseToSweep ==
    DedupElapse(cleanupIn)

\* --------------------------------------------------------------- WAService
\* WAService.initializeClient (tests/waClientRestartRequired.test.js lines 936-943)
InitializeClient ==
    /\ inRegistry
    /\ Initialize

\* A socket with this client's handlers attached is alive.
SocketDelivers ==
    socket \in {"connecting", "open"} \/ leakedConnecting > 0 \/ leakedOpen > 0

\* A socket delivers a new message with key id k: 'messages.upsert' (WAClient.js
\* lines 1105-1121) emits 'message', whose listener (test file lines 920-922)
\* runs WAService._handleIncomingMessage (lines 986-1005) up to the first await
\* in a handler. The handlers are those registered while the service lives.
HandleIncomingMessage(k) ==
    /\ SocketDelivers
    /\ asked' = k
    /\ answer' = isDuplicate(k)
    /\ IF isDuplicate(k)
       THEN /\ cache' = AfterIsDuplicate(k)
            /\ UNCHANGED <<handling, sinceMark, sinceHandled, handledTwice>>
       ELSE /\ cache' = markProcessed(AfterIsDuplicate(k), k)
            /\ sinceMark' = [sinceMark EXCEPT ![k] = 0]
            /\ IF inRegistry
               THEN /\ handling' = handling \cup {k}
                    /\ sinceHandled' = [sinceHandled EXCEPT ![k] = 0]
                    /\ handledTwice' =
                         (handledTwice \/ (sinceHandled[k] >= 0 /\ sinceHandled[k] <= ttl))
               ELSE UNCHANGED <<handling, sinceHandled, handledTwice>>
    /\ UNCHANGED <<cleanupTimer, cleanupIn>>
    /\ UNCHANGED <<clientVars, waitVars, histVars, queueVars, queueHist, serviceVars>>

\* The handlers invoked for k have all returned (lines 998-1004).
HandlersDone(k) ==
    /\ k \in handling
    /\ handling' = handling \ {k}
    /\ UNCHANGED <<cache, cleanupTimer, cleanupIn, asked, answer, sinceMark, sinceHandled,
                   handledTwice>>
    /\ UNCHANGED <<clientVars, waitVars, histVars, queueVars, queueHist, serviceVars>>

\* WAService.destroy (lines 1048-1070): client.destroy(), queue.disconnect()
\* stops the limiter's heartbeat, the deduplicator's destroy() (part_003 lines
\* 76-83) stops the sweep and empties the cache, the maps are cleared.
ServiceDestroy ==
    /\ inRegistry
    /\ DestroyClient
    /\ heartbeat' = "off"
    /\ refreshIn' = 0
    /\ inRegistry' = FALSE
    /\ UNCHANGED <<reservoirLeft, nextRequestIn, running, jobPhase, jobTimer, retryCount,
                   mState, mError>>
    /\ cleanupTimer' = "null"
    /\ cleanupIn' = 0
    /\ cache' = [j \in {} |-> 0]
    /\ UNCHANGED <<handling, asked, answer, sinceMark, sinceHandled, handledTwice>>
    /\ UNCHANGED queueHist
    /\ UNCHANGED <<waitVars, histVars>>
    /\ UNCHANGED serviceVars

\* ------------------------------------------------------ WAService registry
\* (tests/waClientRestartRequired.test.js lines 890-1073, class WAService)

Registered(cl, ids, id) ==
    {i \in 1..Len(cl) : ids[cl[i]] = id}

NewSession(ids) ==
    CHOOSE o \in Sessions : ids[o] = 0 /\ \A q \in Sessions : ids[q] = 0 => o <= q

\* createClient (lines 903-931) on the maps given: the registered client of
\* this id when there is one, otherwise a new session and queue, registered.
CreatedClients(cl, ids, id) ==
    IF Registered(cl, ids, id) # {} THEN cl ELSE Append(cl, NewSession(ids))

CreatedIds(cl, ids, id) ==
    IF Registered(cl, ids, id) # {} THEN ids ELSE [ids EXCEPT ![NewSession(ids)] = id]

CreateReturns(cl, ids, id) ==
    IF Registered(cl, ids, id) # {}
    THEN cl[CHOOSE i \in Registered(cl, ids, id) : TRUE]
    ELSE NewSession(ids)

CreateClient(id) ==
    /\ Registered(clients, sessId, id) = {} => \E o \in Sessions : sessId[o] = 0
    /\ clients' = CreatedClients(clients, sessId, id)
    /\ sessId' = CreatedIds(clients, sessId, id)
    /\ lastReturned' = CreateReturns(clients, sessId, id)
    /\ UNCHANGED <<destroyed, disconnected, destroyPc, destroyIdx>>
    /\ UNCHANGED <<sessionVars, legacyVars, initVars, appVars>>

\* The last steps of destroy() (lines 1061-1067): both maps are cleared.
ClearMaps ==
    /\ clients' = <<>>
    /\ destroyPc' = "idle"
    /\ destroyIdx' = 0

\* destroy() moves on to the queues (lines 1056-1059): disconnect() is called
\* on the first one and awaited.
DisconnectFirstQueue ==
    /\ disconnected' = disconnected \cup {clients[1]}
    /\ destroyPc' = "queues"
    /\ destroyIdx' = 1
    /\ UNCHANGED clients

\* destroy() up to its first await (lines 1048-1054): destroy() is called on
\* the first client and awaited; with no client the whole call runs through.
ServiceDestroyStarts ==
    /\ destroyPc = "idle"
    /\ IF clients = <<>>
       THEN ClearMaps /\ UNCHANGED <<destroyed, disconnected>>
       ELSE /\ destroyed' = destroyed \cup {clients[1]}
            /\ destroyPc' = "clients"
            /\ destroyIdx' = 1
            /\ UNCHANGED <<clients, disconnected>>
    /\ UNCHANGED <<sessId, lastReturned>>
    /\ UNCHANGED <<sessionVars, legacyVars, initVars, appVars>>

\* destroy() resumes in its loop over this.clients.values() (lines 1051-1054):
\* the iterator yields the next entry of the map as it is now, or ends.
ServiceDestroyNextClient ==
    /\ destroyPc = "clients"
    /\ IF destroyIdx < Len(clients)
       THEN /\ destroyed' = destroyed \cup {clients[destroyIdx + 1]}
            /\ destroyIdx' = destroyIdx + 1
            /\ UNCHANGED <<clients, disconnected, destroyPc>>
       ELSE DisconnectFirstQueue /\ UNCHANGED destroyed
    /\ UNCHANGED <<sessId, lastReturned>>
    /\ UNCHANGED <<sessionVars, legacyVars, initVars, appVars>>

\* destroy() resumes in its loop over this.queues.values() (lines 1056-1067):
\* the next queue of the map as it is now, or the end of destroy().
ServiceDestroyNextQueue ==
    /\ destroyPc = "queues"
    /\ IF destroyIdx < Len(clients)
       THEN /\ disconnected' = disconnected \cup {clients[destroyIdx + 1]}
            /\ destroyIdx' = destroyIdx + 1
            /\ UNCHANGED <<clients, destroyPc>>
       ELSE ClearMaps /\ UNCHANGED disconnected
    /\ UNCHANGED <<destroyed, sessId, lastReturned>>
    /\ UNCHANGED <<sessionVars, legacyVars, initVars, appVars>>

\* ------------------------------------------------------- service module
\* (src/service/waService.js lines 1-75 and src/wa/compatibility.js)

\* WAService.getClient (lines 948-950 of the test file's copy of WAService): the
\* registered session of this id, 0 for undefined.
GetClient(id) ==
    IF Registered(clients, sessId, id) = {}
    THEN 0
    ELSE clients[CHOOSE i \in Registered(clients, sessId, id) : TRUE]

\* The body of the initialization promise up to its await (waService.js lines
\* 17-40): createClient for 'wa-client' and 'wa-gateway', then initializeClient
\* for both.
StartInitialization ==
    /\ Cardinality({o \in Sessions : sessId[o] = 0})
          >= Cardinality({id \in ClientIds : GetClient(id) = 0})
    /\ LET c1 == CreatedClients(clients, sessId, 1)
           i1 == CreatedIds(clients, sessId, 1)
       IN  /\ clients' = CreatedClients(c1, i1, 2)
           /\ sessId' = CreatedIds(c1, i1, 2)
           /\ lastReturned' = CreateReturns(c1, i1, 2)
    /\ createCalls' = createCalls + 2
    /\ initializeCalls' = initializeCalls + 2
    /\ initPromise' = "pending"
    /\ UNCHANGED <<destroyed, disconnected, destroyPc, destroyIdx>>

\* The constructor of WAClientCompat (compatibility.js lines 43-47) keeps what
\* getClient returns at that moment.
HandleCaptures ==
    GetClient(1)

\* The module is evaluated (waService.js lines 12-46): the two WAClientCompat
\* handles are constructed, then the initialization promise is started.
ModuleLoads ==
    /\ initPromise = "null"
    /\ waClientHandle = "unset"
    /\ waClientHandle' = "set"
    /\ compatClient' = HandleCaptures
    /\ StartInitialization
    /\ UNCHANGED <<reqState, useResult>>
    /\ UNCHANGED <<sessionVars, legacyVars, appVars>>

\* Both initializeClient calls settled (waService.js lines 36-45); the calls
\* that returned this initialization settle with it.
InitializationSettles(outcome) ==
    /\ initPromise = "pending"
    /\ initPromise' = outcome
    /\ reqState' = [r \in Requests |-> IF reqState[r] = "pending" THEN outcome
                                       ELSE reqState[r]]
    /\ UNCHANGED <<waClientHandle, compatClient, createCalls, initializeCalls, useResult>>
    /\ UNCHANGED <<sessionVars, legacyVars, registryVars, appVars>>

\* WAClientCompat.sendMessage goes through waService.sendMessage by id
\* (compatibility.js lines 57-59, WAService lines 962-971); waitForWaReady uses
\* the client the constructor kept (compatibility.js lines 61-66).
CompatCall(e) ==
    IF e = "waClient.sendMessage"
    THEN IF GetClient(1) = 0 THEN "not found" ELSE "reached client"
    ELSE IF compatClient = 0 THEN "not found" ELSE "reached client"

UseWaClient(e) ==
    /\ waClientHandle = "set"
    /\ useResult' = [useResult EXCEPT ![e] = CompatCall(e)]
    /\ UNCHANGED <<initPromise, waClientHandle, compatClient, createCalls,
                   initializeCalls, reqState>>
    /\ UNCHANGED <<sessionVars, legacyVars, registryVars, appVars>>

\* The exported waitForWaReady (waService.js lines 61-68) as far as its call
\* gets at once: it awaits the initialization, then looks the client up.
WaitForWaReadyResult ==
    IF initPromise = "pending" THEN "awaits initialization"
    ELSE IF initPromise = "rejected" THEN "initialization failed"
    ELSE IF GetClient(1) = 0 THEN "not found"
    ELSE "reached client"

CallWaitForWaReady ==
    /\ waClientHandle = "set"
    /\ useResult' = [useResult EXCEPT !["waitForWaReady"] = WaitForWaReadyResult]
    /\ UNCHANGED <<initPromise, waClientHandle, compatClient, createCalls,
                   initializeCalls, reqState>>
    /\ UNCHANGED <<sessionVars, legacyVars, registryVars, appVars>>

\* initializeWAService, which app.js calls (lines 63-90) and the tests call
\* (test file lines 417-466); it is not part of src/service/waService.js as
\* given. From WA_INITIALIZATION_FIX_SUMMARY.md lines 86-103: the promise of
\* the first call is kept and returned to every later call.
InitStarted_Never ==
    FALSE

InitStarted ==
    initPromise # "null"

InitializeWAService(r) ==
    /\ reqState[r] = "idle"
    /\ IF InitStarted
       THEN /\ reqState' = [reqState EXCEPT ![r] = initPromise]
            /\ UNCHANGED <<initPromise, createCalls, initializeCalls, registryVars>>
       ELSE /\ StartInitialization
            /\ reqState' = [reqState EXCEPT ![r] = "pending"]
    /\ UNCHANGED <<waClientHandle, compatClient, useResult>>
    /\ UNCHANGED <<sessionVars, legacyVars, appVars>>

\* ------------------------------------------- service readiness bookkeeping
\* (src/service/waService.js, the readiness state kept per client)

\* What client.isReady() and client.getState() report when the transport
\* evaluates them.
IsReadyNow == IF transport = "CONNECTED" THEN "true" ELSE "false"

ConnectedStates == {"CONNECTED", "open"}

\* logoutDisconnectReasons (lines 443-448), isLogoutDisconnectReason (lines
\* 526-529) and hasAuthFailureIndicator (lines 531-536). DisconnectReasons are
\* the reasons the 'disconnected' event is given here: one of the logout-style
\* ones and one that is not.
logoutDisconnectReasons == {"LOGGED_OUT", "UNPAIRED", "CONFLICT", "UNPAIRED_IDLE"}

DisconnectReasons == {"LOGGED_OUT", "NAVIGATION"}

IsLogoutDisconnectReason(reason) == reason \in logoutDisconnectReasons

HasAuthFailureIndicator ==
    IsLogoutDisconnectReason(lastDisconnectReason) \/ lastAuthFailureAt # "null"

\* hasRecentQrScan (lines 482-488)
HasRecentQrScan == lastQrAt = "recent"

\* markClientReady (lines 843-866): nothing when state.ready is already set;
\* otherwise the flag is set, awaitingQrScan dropped, the authenticated-fallback
\* timer cleared, the fallback check marked completed, and every registered
\* resolver is called and the list emptied. pcAfter is the callers' positions the caller of this operator
\* has already computed for its own step.
MarkClientReady(pcAfter) ==
    IF ready
    THEN /\ callPc' = pcAfter
         /\ UNCHANGED <<ready, readyResolvers, markVars, indicatorVars>>
    ELSE /\ ready' = TRUE
         /\ awaitingQrScan' = FALSE
         /\ lastDisconnectReason' = "null"
         /\ lastAuthFailureAt' = "null"
         /\ authenticatedReadyFallbackTimer' = "null"
         /\ fallbackCheckCompleted' = TRUE
         /\ fallbackCheckInFlight' = FALSE
         /\ callPc' = [c \in Callers |->
                          IF c \in readyResolvers THEN "resolved" ELSE pcAfter[c]]
         /\ readyResolvers' = {}

\* resetFallbackReadyState (lines 567-571) and markFallbackCheckCompleted
\* (lines 573-577).
ResetFallbackReadyState ==
    /\ fallbackCheckCompleted' = FALSE
    /\ fallbackCheckInFlight' = FALSE

MarkFallbackCheckCompleted ==
    /\ fallbackCheckCompleted' = TRUE
    /\ fallbackCheckInFlight' = FALSE

\* The transport reaches the connected state; its 'ready' event is queued.
TransportConnects ==
    /\ transport = "OPENING"
    /\ transport' = "CONNECTED"
    /\ readyEventDue' = TRUE
    /\ UNCHANGED <<ready, readyResolvers, callPc, callAnswer>>
    /\ UNCHANGED <<coreVars, markVars, checkVars, indicatorVars, monitorVars>>

\* client.on("ready") (lines 1079-1089): markClientReady, then
\* inferClientReadyState, which returns at once because state.ready is set.
OnReadyEvent ==
    /\ readyEventDue
    /\ readyEventDue' = FALSE
    /\ MarkClientReady(callPc)
    /\ UNCHANGED <<transport, callAnswer>>
    /\ UNCHANGED <<coreVars, checkVars, monitorVars>>

\* client.on("disconnected") (lines 1091-1108): state.ready = false, the reason
\* is kept, a logout-style reason sets awaitingQrScan and lastAuthFailureAt, the
\* fallback flags are reset and the authenticated-fallback timer cleared.
OnDisconnectedEvent ==
    /\ transport = "CONNECTED"
    /\ transport' = "OPENING"
    /\ readyEventDue' = FALSE
    /\ ready' = FALSE
    /\ \E reason \in DisconnectReasons :
          /\ lastDisconnectReason' = reason
          /\ awaitingQrScan' = (awaitingQrScan \/ IsLogoutDisconnectReason(reason))
          /\ lastAuthFailureAt' =
                IF IsLogoutDisconnectReason(reason) THEN "set" ELSE lastAuthFailureAt
    /\ ResetFallbackReadyState
    /\ authenticatedReadyFallbackTimer' = "null"
    /\ UNCHANGED <<readyResolvers, callPc, callAnswer>>
    /\ UNCHANGED <<coreVars, checkVars, monitorVars>>

\* waitForClientReady up to its first await (lines 884-893 and 587-595):
\* returns when state.ready is set, otherwise asks client.isReady().
WaitForClientReady(c) ==
    /\ callPc[c] = "idle"
    /\ callPc' = [callPc EXCEPT ![c] = IF ready THEN "resolved" ELSE "isReady"]
    /\ UNCHANGED <<ready, readyResolvers, transport, readyEventDue, callAnswer>>
    /\ UNCHANGED <<coreVars, markVars, checkVars, indicatorVars, monitorVars>>

\* The transport settles the awaited query (lines 594, 605): its value at this
\* moment, or a rejection, which both try blocks catch.
TransportAnswers(c) ==
    /\ callPc[c] \in {"isReady", "getState"}
    /\ callAnswer[c] = "none"
    /\ \E a \in {IF callPc[c] = "isReady" THEN IsReadyNow ELSE transport, "ERROR"} :
          callAnswer' = [callAnswer EXCEPT ![c] = a]
    /\ UNCHANGED <<ready, readyResolvers, transport, readyEventDue, callPc>>
    /\ UNCHANGED <<coreVars, markVars, checkVars, indicatorVars, monitorVars>>

\* The registration at the end of waitForClientReady (lines 899-914): no look
\* at state.ready precedes it.
RegisterResolver(c) ==
    /\ callPc' = [callPc EXCEPT ![c] = "pending"]
    /\ readyResolvers' = readyResolvers \cup {c}
    /\ UNCHANGED <<ready, markVars, indicatorVars>>

\* The call resumes with the answer of client.isReady() (lines 594-603): true
\* marks the client ready and returns, anything else asks client.getState().
IsReadyResumes(c) ==
    /\ callPc[c] = "isReady"
    /\ callAnswer[c] # "none"
    /\ callAnswer' = [callAnswer EXCEPT ![c] = "none"]
    /\ IF callAnswer[c] = "true"
       THEN MarkClientReady([callPc EXCEPT ![c] = "resolved"])
       ELSE /\ callPc' = [callPc EXCEPT ![c] = "getState"]
            /\ UNCHANGED <<ready, readyResolvers, markVars, indicatorVars>>
    /\ UNCHANGED <<transport, readyEventDue>>
    /\ UNCHANGED <<coreVars, checkVars, monitorVars>>

\* The call resumes with the answer of client.getState() (lines 604-624 and
\* 893-914): a connected state marks the client ready and returns, anything
\* else falls through to the registration of the resolver and its timeout.
GetStateResumes(c) ==
    /\ callPc[c] = "getState"
    /\ callAnswer[c] # "none"
    /\ callAnswer' = [callAnswer EXCEPT ![c] = "none"]
    /\ IF callAnswer[c] \in ConnectedStates
       THEN MarkClientReady([callPc EXCEPT ![c] = "resolved"])
       ELSE RegisterResolver(c)
    /\ UNCHANGED <<transport, readyEventDue>>
    /\ UNCHANGED <<coreVars, checkVars, monitorVars>>

\* The timeout of a registered call (lines 902-911).
ReadyTimeoutFires(c) ==
    /\ callPc[c] = "pending"
    /\ callPc' = [callPc EXCEPT ![c] = "rejected"]
    /\ readyResolvers' = readyResolvers \ {c}
    /\ UNCHANGED <<ready, transport, readyEventDue, callAnswer>>
    /\ UNCHANGED <<coreVars, markVars, checkVars, indicatorVars, monitorVars>>

\* The caller is done with a settled call and may call again.
CallReturns(c) ==
    /\ callPc[c] \in {"resolved", "rejected"}
    /\ callPc' = [callPc EXCEPT ![c] = "idle"]
    /\ UNCHANGED <<ready, readyResolvers, transport, readyEventDue, callAnswer>>
    /\ UNCHANGED <<coreVars, markVars, checkVars, indicatorVars, monitorVars>>

\* ------------------------------------------- fallback readiness check
\* (src/service/waService.js lines 627-683 and 1150-1541, for the WA-GATEWAY
\* client with the Chrome executable present)

\* client.on("qr") (lines 1055-1064)
OnQrEvent ==
    /\ ~ready
    /\ lastQrAt' = "recent"
    /\ awaitingQrScan' = TRUE
    /\ ResetFallbackReadyState
    /\ authenticatedReadyFallbackTimer' = "null"
    /\ UNCHANGED <<clearAuthSession, fallbackTimers, cooldownTimers>>
    /\ UNCHANGED <<readinessVars, coreVars, checkVars, indicatorVars>>

\* qrAwaitingReinitGraceMs (line 442) pass since the last QR.
QrGraceExpires ==
    /\ lastQrAt = "recent"
    /\ lastQrAt' = "old"
    /\ UNCHANGED <<clearAuthSession, fallbackTimers, cooldownTimers>>
    /\ UNCHANGED <<readinessVars, coreVars, markVars, checkVars, indicatorVars>>

\* client.on("authenticated") (lines 1066-1070): clearLogoutAwaitingQr (lines
\* 559-565) and scheduleAuthenticatedReadyFallback, which replaces the timer.
OnAuthenticatedEvent ==
    /\ ~ready
    /\ awaitingQrScan' = FALSE
    /\ lastDisconnectReason' =
          IF awaitingQrScan \/ lastDisconnectReason # "null"
          THEN "null" ELSE lastDisconnectReason
    /\ authenticatedReadyFallbackTimer' = "pending"
    /\ UNCHANGED <<fallbackCheckCompleted, fallbackCheckInFlight, lastAuthFailureAt>>
    /\ UNCHANGED <<readinessVars, coreVars, checkVars, monitorVars>>

\* client.on("auth_failure") (lines 1072-1077)
OnAuthFailureEvent ==
    /\ transport = "OPENING"
    /\ lastAuthFailureAt' = "set"
    /\ authenticatedReadyFallbackTimer' = "null"
    /\ UNCHANGED <<fallbackCheckCompleted, fallbackCheckInFlight, awaitingQrScan,
                   lastDisconnectReason>>
    /\ UNCHANGED <<readinessVars, coreVars, checkVars, monitorVars>>

\* The callback of the authenticated-fallback timer up to its first await
\* (lines 633-642): nothing when the client is ready by now.
AuthenticatedFallbackFires ==
    /\ authenticatedReadyFallbackTimer = "pending"
    /\ authFallbackPc = "idle"
    /\ authenticatedReadyFallbackTimer' = "null"
    /\ authFallbackPc' = IF ready THEN "idle" ELSE "asking"
    /\ UNCHANGED <<fallbackCheckCompleted, fallbackCheckInFlight, awaitingQrScan>>
    /\ UNCHANGED <<checkPc, fallbackStateRetryCount, fallbackReinitCount,
                   unknownStateRetryCount, connectInFlight, recoveryCalls, lastRecovery>>
    /\ UNCHANGED <<readinessVars, coreVars, indicatorVars, monitorVars>>

\* reconnectClient (lines 997-1014) and reinitializeClient (lines 1016-1039) up
\* to their await: the fallback flags are reset and the client is told to
\* connect, or to reinitialize with the clearAuthSession option.
RecoveryCall(kind, clear) ==
    /\ recoveryCalls < MaxRecoveries
    /\ recoveryCalls' = recoveryCalls + 1
    /\ lastRecovery' = kind
    /\ clearAuthSession' = clear
    /\ connectInFlight' = "short"

\* The callback after its two logged queries (lines 643-681): reconnectClient,
\* whatever the queries said and whatever the counters of the fallback check.
AuthenticatedFallbackResumes ==
    /\ authFallbackPc = "asking"
    /\ authFallbackPc' = "idle"
    /\ RecoveryCall("reconnect", FALSE)
    /\ ResetFallbackReadyState
    /\ UNCHANGED <<awaitingQrScan, authenticatedReadyFallbackTimer>>
    /\ UNCHANGED <<checkPc, fallbackStateRetryCount, fallbackReinitCount,
                   unknownStateRetryCount>>
    /\ UNCHANGED <<lastQrAt, fallbackTimers, cooldownTimers>>
    /\ UNCHANGED <<readinessVars, coreVars, indicatorVars>>

\* scheduleFallbackReadyCheck up to its setTimeout (lines 1152-1163 and 1218),
\* called with the two flags as the caller left them and the timeouts of the
\* check that are pending then.
ScheduleFallbackReadyCheck(completedNow, inFlightNow, timersNow) ==
    /\ fallbackCheckCompleted' = completedNow
    /\ IF completedNow \/ inFlightNow
       THEN /\ checkPc' = IF timersNow > 0 THEN "timer" ELSE "stopped"
            /\ fallbackCheckInFlight' = inFlightNow
            /\ fallbackTimers' = timersNow
       ELSE /\ checkPc' = "timer"
            /\ fallbackCheckInFlight' = TRUE
            /\ fallbackTimers' = timersNow + 1

\* Startup (lines 1041-1128 and 1543-1545): client.initialize() is called and
\* the first check is scheduled.
StartFallbackCheck ==
    /\ checkPc = "off"
    /\ connectInFlight' = "short"
    /\ ScheduleFallbackReadyCheck(fallbackCheckCompleted, fallbackCheckInFlight,
                                  fallbackTimers)
    /\ UNCHANGED <<awaitingQrScan, authenticatedReadyFallbackTimer>>
    /\ UNCHANGED <<authFallbackPc, fallbackStateRetryCount, fallbackReinitCount,
                   unknownStateRetryCount, recoveryCalls, lastRecovery>>
    /\ UNCHANGED <<lastQrAt, clearAuthSession, cooldownTimers>>
    /\ UNCHANGED <<readinessVars, coreVars, indicatorVars>>

\* The connect promise the client reports (lines 1164-1177): it gets older than
\* connectInFlightReinitMs, or it settles.
ConnectAges ==
    /\ connectInFlight = "short"
    /\ connectInFlight' = "long"
    /\ UNCHANGED <<checkPc, authFallbackPc, fallbackStateRetryCount, fallbackReinitCount,
                   unknownStateRetryCount, recoveryCalls, lastRecovery>>
    /\ UNCHANGED <<readinessVars, markVars, coreVars, indicatorVars, monitorVars>>

ConnectSettles ==
    /\ connectInFlight # "no"
    /\ connectInFlight' = "no"
    /\ UNCHANGED <<checkPc, authFallbackPc, fallbackStateRetryCount, fallbackReinitCount,
                   unknownStateRetryCount, recoveryCalls, lastRecovery>>
    /\ UNCHANGED <<readinessVars, markVars, coreVars, indicatorVars, monitorVars>>

\* The check's timer callback up to its first await (lines 1218-1312).
FallbackCheckFires ==
    /\ checkPc = "timer"
    /\ fallbackTimers > 0
    /\ connectInFlight = "long" /\ ~fallbackCheckCompleted /\ ~ready
          => recoveryCalls < MaxRecoveries
    /\ IF fallbackCheckCompleted
       THEN /\ checkPc' = "stopped"
            /\ fallbackCheckInFlight' = FALSE
            /\ fallbackTimers' = fallbackTimers - 1
            /\ UNCHANGED <<fallbackCheckCompleted, connectInFlight, recoveryCalls,
                           lastRecovery, clearAuthSession>>
       ELSE IF ready
       THEN /\ checkPc' = "stopped"
            /\ MarkFallbackCheckCompleted
            /\ fallbackTimers' = fallbackTimers - 1
            /\ UNCHANGED <<connectInFlight, recoveryCalls, lastRecovery,
                           clearAuthSession>>
       ELSE IF connectInFlight = "long"
       THEN IF awaitingQrScan /\ HasRecentQrScan
            THEN /\ ScheduleFallbackReadyCheck(fallbackCheckCompleted, FALSE,
                                               fallbackTimers - 1)
                 /\ UNCHANGED <<connectInFlight, recoveryCalls, lastRecovery,
                                clearAuthSession>>
            ELSE /\ RecoveryCall("reinitialize", FALSE)
                 /\ ScheduleFallbackReadyCheck(FALSE, FALSE, fallbackTimers - 1)
       ELSE IF connectInFlight = "short" \/ awaitingQrScan
       THEN /\ ScheduleFallbackReadyCheck(fallbackCheckCompleted, FALSE,
                                          fallbackTimers - 1)
            /\ UNCHANGED <<connectInFlight, recoveryCalls, lastRecovery,
                           clearAuthSession>>
       ELSE /\ checkPc' = "isReady"
            /\ fallbackCheckInFlight' = FALSE
            /\ fallbackTimers' = fallbackTimers - 1
            /\ UNCHANGED <<fallbackCheckCompleted, connectInFlight, recoveryCalls,
                           lastRecovery, clearAuthSession>>
    /\ UNCHANGED <<awaitingQrScan, authenticatedReadyFallbackTimer>>
    /\ UNCHANGED <<authFallbackPc, fallbackStateRetryCount, fallbackReinitCount,
                   unknownStateRetryCount>>
    /\ UNCHANGED <<lastQrAt, cooldownTimers>>
    /\ UNCHANGED <<readinessVars, coreVars, indicatorVars>>

\* A connected observation (lines 1316-1320 and 1376-1384).
ConnectedObservation ==
    /\ fallbackStateRetryCount' = 0
    /\ fallbackReinitCount' = 0
    /\ unknownStateRetryCount' = 0
    /\ MarkFallbackCheckCompleted
    /\ checkPc' = "stopped"
    /\ UNCHANGED <<connectInFlight, recoveryCalls, lastRecovery>>
    /\ UNCHANGED <<lastAuthFailureAt, clearAuthSession, fallbackTimers, cooldownTimers>>

\* The callback resumes with the answer of client.isReady() (lines 1311-1341).
FallbackIsReadyResumes ==
    /\ checkPc = "isReady"
    /\ \E a \in {IsReadyNow, "ERROR"} :
          IF a = "true"
          THEN ConnectedObservation
          ELSE /\ checkPc' = "getState"
               /\ UNCHANGED <<fallbackCheckCompleted, fallbackCheckInFlight,
                              fallbackStateRetryCount, fallbackReinitCount,
                              unknownStateRetryCount, connectInFlight, recoveryCalls,
                              lastRecovery>>
               /\ UNCHANGED <<lastAuthFailureAt, clearAuthSession, fallbackTimers,
                              cooldownTimers>>
    /\ UNCHANGED <<awaitingQrScan, authenticatedReadyFallbackTimer, authFallbackPc>>
    /\ UNCHANGED <<lastDisconnectReason, lastQrAt>>
    /\ UNCHANGED <<readinessVars, coreVars>>

\* The clear-session decision of the escalation for the state a (lines
\* 1424-1443), the label being WA-GATEWAY: whether the unknown state is
\* escalated, and whether the session may be cleared.
ShouldEscalateUnknownState(a) ==
    /\ a = "unknown"
    /\ unknownStateRetryCount + 1 >= maxUnknownStateEscalationRetries

CanClearFallbackSession(a, sessionPathExists, hasSessionContent) ==
    LET shouldClearFallbackSession == a = "unknown"
        shouldClearCloseSession == a = "close" /\ hasSessionContent
    IN  /\ sessionPathExists
        /\ \/ shouldClearFallbackSession /\ HasAuthFailureIndicator
           \/ shouldClearCloseSession

\* An escalation whose cooldown branch schedules the next check as well.
EscalateOrCooldown_KeepsChecking(a) ==
    /\ fallbackStateRetryCount' = 0
    /\ cooldownTimers' = cooldownTimers + 1
    /\ ScheduleFallbackReadyCheck(fallbackCheckCompleted, fallbackCheckInFlight,
                                  fallbackTimers)
    /\ UNCHANGED <<fallbackReinitCount, unknownStateRetryCount, connectInFlight,
                   recoveryCalls, lastRecovery, lastAuthFailureAt, clearAuthSession>>

\* The escalation after the retries (lines 1402-1541): the cooldown when the
\* reinit attempts are used up, otherwise a reinitialize that clears the
\* session, or a reconnect.
EscalateOrCooldown(a) ==
    /\ fallbackStateRetryCount' = 0
    /\ IF fallbackReinitCount >= maxFallbackReinitAttempts
       THEN /\ checkPc' = "cooldown"
            /\ cooldownTimers' = cooldownTimers + 1
            /\ UNCHANGED <<fallbackCheckCompleted, fallbackCheckInFlight,
                           fallbackReinitCount, unknownStateRetryCount, connectInFlight,
                           recoveryCalls, lastRecovery>>
            /\ UNCHANGED <<lastAuthFailureAt, clearAuthSession, fallbackTimers>>
       ELSE /\ fallbackReinitCount' = fallbackReinitCount + 1
            /\ unknownStateRetryCount' =
                  IF a = "unknown" THEN unknownStateRetryCount + 1 ELSE 0
            /\ \E sessionPathExists \in BOOLEAN :
                 \E hasSessionContent \in {FALSE, sessionPathExists} :
                  IF ShouldEscalateUnknownState(a) /\ sessionPathExists
                  THEN /\ lastAuthFailureAt' = "set"
                       /\ RecoveryCall("reinitialize", TRUE)
                  ELSE IF CanClearFallbackSession(a, sessionPathExists, hasSessionContent)
                  THEN /\ RecoveryCall("reinitialize", TRUE)
                       /\ UNCHANGED lastAuthFailureAt
                  ELSE /\ RecoveryCall("reconnect", FALSE)
                       /\ UNCHANGED lastAuthFailureAt
            /\ ScheduleFallbackReadyCheck(FALSE, FALSE, fallbackTimers)
            /\ UNCHANGED cooldownTimers

\* The callback resumes with the answer of client.getState() (lines 1350-1541):
\* a rejection defers the check, a connected state completes it, anything else
\* is retried maxFallbackStateRetries times and then escalated.
FallbackGetStateResumes ==
    /\ checkPc = "getState"
    /\ (fallbackStateRetryCount >= maxFallbackStateRetries
        /\ fallbackReinitCount < maxFallbackReinitAttempts)
          => recoveryCalls < MaxRecoveries
    /\ \E a \in {transport, "unknown", "close", "ERROR"} :
          IF a = "ERROR"
          THEN /\ ScheduleFallbackReadyCheck(fallbackCheckCompleted, fallbackCheckInFlight,
                                             fallbackTimers)
               /\ UNCHANGED <<fallbackStateRetryCount, fallbackReinitCount,
                              unknownStateRetryCount, connectInFlight, recoveryCalls,
                              lastRecovery>>
               /\ UNCHANGED <<lastAuthFailureAt, clearAuthSession, cooldownTimers>>
          ELSE IF a \in {"CONNECTED", "open"}
          THEN ConnectedObservation
          ELSE IF fallbackStateRetryCount < maxFallbackStateRetries
          THEN /\ fallbackStateRetryCount' = fallbackStateRetryCount + 1
               /\ ScheduleFallbackReadyCheck(fallbackCheckCompleted, fallbackCheckInFlight,
                                             fallbackTimers)
               /\ UNCHANGED <<fallbackReinitCount, unknownStateRetryCount,
                              connectInFlight, recoveryCalls, lastRecovery>>
               /\ UNCHANGED <<lastAuthFailureAt, clearAuthSession, cooldownTimers>>
          ELSE EscalateOrCooldown(a)
    /\ UNCHANGED <<awaitingQrScan, authenticatedReadyFallbackTimer, authFallbackPc>>
    /\ UNCHANGED <<lastDisconnectReason, lastQrAt>>
    /\ UNCHANGED <<readinessVars, coreVars>>

\* The cooldown timer's callback (lines 1209-1217): the counters start over and
\* the check is scheduled again.
CooldownFires ==
    /\ cooldownTimers > 0
    /\ cooldownTimers' = cooldownTimers - 1
    /\ fallbackReinitCount' = 0
    /\ fallbackStateRetryCount' = 0
    /\ unknownStateRetryCount' = 0
    /\ ScheduleFallbackReadyCheck(fallbackCheckCompleted, fallbackCheckInFlight,
                                  fallbackTimers)
    /\ UNCHANGED <<awaitingQrScan, authenticatedReadyFallbackTimer>>
    /\ UNCHANGED <<authFallbackPc, connectInFlight, recoveryCalls, lastRecovery>>
    /\ UNCHANGED <<lastQrAt, clearAuthSession>>
    /\ UNCHANGED <<readinessVars, coreVars, indicatorVars>>

\* ------------------------------------------- whatsapp-web.js WAClient
\* (src/wa/WAClient.js lines 36-529). One initialize() call is in flight at a
\* time; the client object emits nothing once it is closed or destroyed.

\* lines 120-131: the new Client, its handlers and the QR-timeout timer of this
\* initialize() call.
WebNewClient ==
    /\ webClient' = "live"
    /\ webState' = "OPENING"
    /\ webReadyDue' = FALSE
    /\ webQrTimers' = webQrTimers + 1
    /\ webOwnQrTimer' = TRUE
    /\ webInitPc' = "initializing"

\* initialize() can go past its guards here.
WebCanInitialize ==
    /\ webInitPc = "idle"
    /\ webQrTimers < MaxQrTimers

\* initialize() up to its first await (lines 55-134): the await of the old
\* client's destroy(), or of the new client's initialize().
WebInitializeCall ==
    IF webIsInitializing \/ webIsReady
    THEN UNCHANGED <<webIsInitializing, webClient, webState, webReadyDue, webQrTimers,
                     webOwnQrTimer, webInitPc>>
    ELSE /\ webIsInitializing' = TRUE
         /\ IF webClient = "live"
            THEN /\ webInitPc' = "destroying"
                 /\ UNCHANGED <<webClient, webState, webReadyDue, webQrTimers,
                                webOwnQrTimer>>
            ELSE WebNewClient

\* An explicit call that passes the guards.
WebInitialize ==
    /\ ~(webIsInitializing \/ webIsReady)
    /\ WebCanInitialize
    /\ WebInitializeCall
    /\ UNCHANGED <<webIsReady, webAuthenticated, webInitRetries, webReconnectAttempts,
                   webHandlerPc, webInitTimers, webWait, webPollPc,
                   disconnectedSinceQuery>>
    /\ UNCHANGED <<cronVars, sessionVars, legacyVars, registryVars, initVars>>

\* The old client's destroy() settles (lines 74-78) and the call goes on.
WebOldClientDestroyed ==
    /\ webInitPc = "destroying"
    /\ webQrTimers < MaxQrTimers
    /\ WebNewClient
    /\ UNCHANGED <<webIsReady, webIsInitializing, webAuthenticated, webInitRetries,
                   webReconnectAttempts, webHandlerPc, webInitTimers, webWait, webPollPc,
                   disconnectedSinceQuery>>
    /\ UNCHANGED <<cronVars, sessionVars, legacyVars, registryVars, initVars>>

\* client.initialize() resolves (lines 134-139): the call's own QR timer is
\* cleared, isInitializing is left as it is.
WebInitializeResolves ==
    /\ webInitPc = "initializing"
    /\ webInitPc' = "idle"
    /\ webQrTimers' = IF webOwnQrTimer THEN webQrTimers - 1 ELSE webQrTimers
    /\ webOwnQrTimer' = FALSE
    /\ webInitRetries' = 0
    /\ UNCHANGED <<webClient, webIsReady, webIsInitializing, webAuthenticated,
                   webReconnectAttempts, webHandlerPc, webInitTimers, webState,
                   webReadyDue, webWait, webPollPc, disconnectedSinceQuery>>
    /\ UNCHANGED <<cronVars, sessionVars, legacyVars, registryVars, initVars>>

\* A retry is scheduled while retries are left (lines 146-159 and 312-325).
WebScheduleRetry ==
    IF webInitRetries < maxInitRetries
    THEN /\ webInitRetries' = webInitRetries + 1
         /\ webInitTimers' = webInitTimers + 1
    ELSE UNCHANGED <<webInitRetries, webInitTimers>>

\* client.initialize() rejects (lines 140-166): the QR timer stays pending.
WebInitializeRejects ==
    /\ webInitPc = "initializing"
    /\ webInitRetries < maxInitRetries => webInitTimers < MaxInitTimers
    /\ webInitPc' = "idle"
    /\ webIsInitializing' = FALSE
    /\ webOwnQrTimer' = FALSE
    /\ WebScheduleRetry
    /\ UNCHANGED <<webClient, webIsReady, webAuthenticated, webReconnectAttempts,
                   webHandlerPc, webQrTimers, webState, webReadyDue, webWait, webPollPc,
                   disconnectedSinceQuery>>
    /\ UNCHANGED <<cronVars, sessionVars, legacyVars, registryVars, initVars>>

\* client.on('authenticated') (lines 182-189)
WebOnAuthenticated ==
    /\ webClient = "live"
    /\ webState = "OPENING"
    /\ webState' = "AUTHENTICATED"
    /\ webAuthenticated' = TRUE
    /\ webReconnectAttempts' = 0
    /\ webInitRetries' = 0
    /\ UNCHANGED <<webClient, webIsReady, webIsInitializing, webInitPc, webHandlerPc,
                   webInitTimers, webQrTimers, webOwnQrTimer, webReadyDue, webWait,
                   webPollPc, disconnectedSinceQuery>>
    /\ UNCHANGED <<cronVars, sessionVars, legacyVars, registryVars, initVars>>

\* The page reaches the connected state: getState() says CONNECTED from now
\* on, the 'ready' event is due and may be late or never come.
WebTransportConnects ==
    /\ webClient = "live"
    /\ webState = "AUTHENTICATED"
    /\ webState' = "CONNECTED"
    /\ webReadyDue' = TRUE
    /\ UNCHANGED <<webClient, webIsReady, webIsInitializing, webAuthenticated,
                   webInitRetries, webReconnectAttempts, webInitPc, webHandlerPc,
                   webInitTimers, webQrTimers, webOwnQrTimer, webWait, webPollPc,
                   disconnectedSinceQuery>>
    /\ UNCHANGED <<cronVars, sessionVars, legacyVars, registryVars, initVars>>

\* client.on('ready') (lines 204-211); the emitted 'ready' settles a pending
\* waitForReady (lines 512-515).
WebOnReady ==
    /\ webReadyDue
    /\ webReadyDue' = FALSE
    /\ webIsReady' = TRUE
    /\ webIsInitializing' = FALSE
    /\ webReconnectAttempts' = 0
    /\ webInitRetries' = 0
    /\ webWait' = "idle"
    /\ UNCHANGED <<webClient, webAuthenticated, webInitPc, webHandlerPc, webInitTimers,
                   webQrTimers, webOwnQrTimer, webState, webPollPc,
                   disconnectedSinceQuery>>
    /\ UNCHANGED <<cronVars, sessionVars, legacyVars, registryVars, initVars>>

\* the no-reconnect list of this class (line 253)
webNoReconnectReasons ==
    {"LOGGED_OUT", "UNPAIRED"}

\* client.on('disconnected') with _handleReconnection (lines 224-233 and
\* 251-271); the emitted 'disconnected' rejects a pending waitForReady (lines
\* 523-526), whose poll callback, if it is awaiting getState(), goes on.
WebOnDisconnected ==
    /\ webClient = "live"
    /\ webState \in {"AUTHENTICATED", "CONNECTED"}
    /\ \E reason \in DisconnectReasons :
          /\ (reason \notin webNoReconnectReasons
              /\ webReconnectAttempts < maxReconnectAttempts)
                => webInitTimers < MaxInitTimers
          /\ IF reason \in webNoReconnectReasons
                \/ webReconnectAttempts >= maxReconnectAttempts
             THEN UNCHANGED <<webReconnectAttempts, webInitTimers>>
             ELSE /\ webReconnectAttempts' = webReconnectAttempts + 1
                  /\ webInitTimers' = webInitTimers + 1
    /\ webState' = "CLOSED"
    /\ webReadyDue' = FALSE
    /\ webIsReady' = FALSE
    /\ webIsInitializing' = FALSE
    /\ webAuthenticated' = FALSE
    /\ webWait' = "idle"
    /\ disconnectedSinceQuery' = (webPollPc # "idle")
    /\ UNCHANGED <<webClient, webInitRetries, webInitPc, webHandlerPc, webQrTimers,
                   webOwnQrTimer, webPollPc>>
    /\ UNCHANGED <<cronVars, sessionVars, legacyVars, registryVars, initVars>>

\* client.on('auth_failure') with _handleAuthenticationFailure up to its await
\* (lines 192-201 and 276-286).
WebOnAuthFailure ==
    /\ webClient = "live"
    /\ webState = "OPENING"
    /\ webHandlerPc = "idle"
    /\ webState' = "CLOSED"
    /\ webAuthenticated' = FALSE
    /\ webIsInitializing' = FALSE
    /\ webWait' = "idle"
    /\ webHandlerPc' = IF webInitRetries >= 1 THEN "authFailure" ELSE "idle"
    /\ UNCHANGED <<webClient, webIsReady, webInitRetries, webReconnectAttempts, webInitPc,
                   webInitTimers, webQrTimers, webOwnQrTimer, webReadyDue, webPollPc,
                   disconnectedSinceQuery>>
    /\ UNCHANGED <<cronVars, sessionVars, legacyVars, registryVars, initVars>>

\* A QR-timeout timer fires (lines 126-131), the one of the call in flight or
\* one a rejected call left behind, and _handleInitializationTimeout runs up to
\* its await (lines 298-304), or to its end when there is no client.
WebQrTimeoutFires ==
    /\ webQrTimers > 0
    /\ webHandlerPc = "idle"
    /\ (~webAuthenticated /\ ~webIsReady /\ webClient = "null"
        /\ webInitRetries < maxInitRetries) => webInitTimers < MaxInitTimers
    /\ webQrTimers' = webQrTimers - 1
    /\ \E own \in (IF webOwnQrTimer THEN {TRUE} ELSE {})
                     \cup (IF webQrTimers > (IF webOwnQrTimer THEN 1 ELSE 0)
                           THEN {FALSE} ELSE {}) :
          webOwnQrTimer' = (webOwnQrTimer /\ ~own)
    /\ IF webAuthenticated \/ webIsReady
       THEN UNCHANGED <<webIsInitializing, webHandlerPc, webInitRetries, webInitTimers>>
       ELSE /\ webIsInitializing' = FALSE
            /\ IF webClient = "live"
               THEN /\ webHandlerPc' = "timeout"
                    /\ UNCHANGED <<webInitRetries, webInitTimers>>
               ELSE /\ WebScheduleRetry
                    /\ UNCHANGED webHandlerPc
    /\ UNCHANGED <<webClient, webIsReady, webAuthenticated, webReconnectAttempts,
                   webInitPc, webState, webReadyDue, webWait, webPollPc,
                   disconnectedSinceQuery>>
    /\ UNCHANGED <<cronVars, sessionVars, legacyVars, registryVars, initVars>>

\* The destroy() a handler awaits settles (lines 284-291 and 304-325):
\* this.client = null when it resolved, and the timeout handler goes on to its
\* retry.
WebHandlerDestroySettles ==
    /\ webHandlerPc # "idle"
    /\ (webHandlerPc = "timeout" /\ webInitRetries < maxInitRetries)
          => webInitTimers < MaxInitTimers
    /\ webHandlerPc' = "idle"
    /\ \E resolved \in BOOLEAN :
          /\ webClient' = IF resolved THEN "null" ELSE webClient
          /\ webState' = IF resolved THEN "CLOSED" ELSE webState
          /\ webReadyDue' = IF resolved THEN FALSE ELSE webReadyDue
    /\ IF webHandlerPc = "timeout"
       THEN WebScheduleRetry
       ELSE UNCHANGED <<webInitRetries, webInitTimers>>
    /\ UNCHANGED <<webIsReady, webIsInitializing, webAuthenticated, webReconnectAttempts,
                   webInitPc, webQrTimers, webOwnQrTimer, webWait, webPollPc,
                   disconnectedSinceQuery>>
    /\ UNCHANGED <<cronVars, sessionVars, legacyVars, registryVars, initVars>>

\* A timer that calls initialize() fires (lines 151-159, 264-270, 317-325).
WebInitTimerFires ==
    /\ webInitTimers > 0
    /\ ~(webIsInitializing \/ webIsReady) => WebCanInitialize
    /\ webInitTimers' = webInitTimers - 1
    /\ WebInitializeCall
    /\ UNCHANGED <<webIsReady, webAuthenticated, webInitRetries, webReconnectAttempts,
                   webHandlerPc, webWait, webPollPc, disconnectedSinceQuery>>
    /\ UNCHANGED <<cronVars, sessionVars, legacyVars, registryVars, initVars>>

\* waitForReady() that has to wait (lines 422-527): its timer, its interval and
\* its listeners are set.
WebWaitForReady ==
    /\ webWait = "idle"
    /\ ~webIsReady
    /\ webClient = "live"
    /\ webWait' = "pending"
    /\ UNCHANGED <<webClient, webIsReady, webIsInitializing, webAuthenticated,
                   webInitRetries, webReconnectAttempts, webInitPc, webHandlerPc,
                   webInitTimers, webQrTimers, webOwnQrTimer, webState, webReadyDue,
                   webPollPc, disconnectedSinceQuery>>
    /\ UNCHANGED <<cronVars, sessionVars, legacyVars, registryVars, initVars>>

\* Its timeout (lines 436-469)
WebWaitTimeout ==
    /\ webWait = "pending"
    /\ webWait' = "idle"
    /\ UNCHANGED <<webClient, webIsReady, webIsInitializing, webAuthenticated,
                   webInitRetries, webReconnectAttempts, webInitPc, webHandlerPc,
                   webInitTimers, webQrTimers, webOwnQrTimer, webState, webReadyDue,
                   webPollPc, disconnectedSinceQuery>>
    /\ UNCHANGED <<cronVars, sessionVars, legacyVars, registryVars, initVars>>

\* A tick of stateCheckInterval up to its await (lines 484-488): getState() is
\* asked when the client is authenticated and not ready; without a client it
\* answers NOT_INITIALIZED.
WebPollTick ==
    /\ webWait = "pending"
    /\ webPollPc = "idle"
    /\ webAuthenticated /\ ~webIsReady
    /\ webPollPc' = IF webClient = "null" THEN "OTHER" ELSE "asking"
    /\ disconnectedSinceQuery' = FALSE
    /\ UNCHANGED <<webClient, webIsReady, webIsInitializing, webAuthenticated,
                   webInitRetries, webReconnectAttempts, webInitPc, webHandlerPc,
                   webInitTimers, webQrTimers, webOwnQrTimer, webState, webReadyDue,
                   webWait>>
    /\ UNCHANGED <<cronVars, sessionVars, legacyVars, registryVars, initVars>>

\* The page evaluates the query (lines 370-381): the state it is in, or an
\* error, which getState() turns into 'ERROR'.
WebPollAnswers ==
    /\ webPollPc = "asking"
    /\ \E a \in {IF webState = "CONNECTED" THEN "CONNECTED" ELSE "OTHER", "OTHER"} :
          webPollPc' = a
    /\ UNCHANGED <<webClient, webIsReady, webIsInitializing, webAuthenticated,
                   webInitRetries, webReconnectAttempts, webInitPc, webHandlerPc,
                   webInitTimers, webQrTimers, webOwnQrTimer, webState, webReadyDue,
                   webWait, disconnectedSinceQuery>>
    /\ UNCHANGED <<cronVars, sessionVars, legacyVars, registryVars, initVars>>

\* The tick's callback resumes with the answer (lines 489-501): a connected
\* state sets isReady, cleans up and emits 'ready'.
WebPollResumes ==
    /\ webPollPc \in {"CONNECTED", "OTHER"}
    /\ webPollPc' = "idle"
    /\ disconnectedSinceQuery' = FALSE
    /\ IF webPollPc \in ConnectedStates
       THEN /\ webIsReady' = TRUE
            /\ webIsInitializing' = FALSE
            /\ webWait' = "idle"
       ELSE UNCHANGED <<webIsReady, webIsInitializing, webWait>>
    /\ UNCHANGED <<webClient, webAuthenticated, webInitRetries, webReconnectAttempts,
                   webInitPc, webHandlerPc, webInitTimers, webQrTimers, webOwnQrTimer,
                   webState, webReadyDue>>
    /\ UNCHANGED <<cronVars, sessionVars, legacyVars, registryVars, initVars>>

\* ------------------------------------------- cron buckets
\* (app.js lines 19-60)

\* activateBucket -> loadCronModules up to its await (lines 21-25): the modules
\* that are not in loadedCronModules are imported. A trigger has one call in
\* flight at a time, and waitForWaReady() resolves once.
ActivateBucket(t) ==
    /\ bucketStatus[t] # "loading"
    /\ t = "waitForWaReady" => bucketStatus[t] = "none"
    /\ LET pendingModules == Modules \ loadedCronModules
       IN  IF pendingModules = {}
           THEN /\ bucketStatus' = [bucketStatus EXCEPT ![t] = "already active"]
                /\ UNCHANGED importing
           ELSE /\ bucketStatus' = [bucketStatus EXCEPT ![t] = "loading"]
                /\ importing' = [importing EXCEPT ![t] = pendingModules]
    /\ UNCHANGED <<loadedCronModules, activations>>
    /\ UNCHANGED <<webVars, sessionVars, legacyVars, registryVars, initVars>>

\* One import() of a call resolves (lines 26-28): the module is added to the
\* set and reported as activated; the call returns true after its last one
\* (lines 29-31, 45).
ImportResolves(t, m) ==
    /\ m \in importing[t]
    /\ loadedCronModules' = loadedCronModules \cup {m}
    /\ activations' = [activations EXCEPT ![m] = @ + 1]
    /\ importing' = [importing EXCEPT ![t] = @ \ {m}]
    /\ bucketStatus' = [bucketStatus EXCEPT
                           ![t] = IF importing[t] = {m} THEN "activated" ELSE @]
    /\ UNCHANGED <<webVars, sessionVars, legacyVars, registryVars, initVars>>

\* ------------------------------------------------------------ specification
Init ==
    /\ socket = "null"
    /\ isReady = FALSE
    /\ isInitializing = FALSE
    /\ authenticated = FALSE
    /\ qrScanned = FALSE
    /\ reconnectAttempts = 0
    /\ initRetries = 0
    /\ lastError = "none"
    /\ qrTimeoutTimer = "null"
    /\ reconnectTimer = "null"
    /\ qrOrphans = 0
    /\ rcOrphans = 0
    /\ initInFlight = 0
    /\ leakedConnecting = 0
    /\ leakedOpen = 0
    /\ wState = [w \in Waiters |-> "idle"]
    /\ wReason = [w \in Waiters |-> "none"]
    /\ readyListeners = {}
    /\ disconnectedListeners = {}
    /\ wTimers = {}
    /\ wPolls = {}
    /\ term = "none"
    /\ wTermSeen = [w \in Waiters |-> "none"]
    /\ transientSeen = FALSE
    /\ cache = [j \in {} |-> 0]
    /\ cleanupTimer = "on"
    /\ cleanupIn = cleanupInterval
    /\ handling = {}
    /\ asked = 0
    /\ answer = FALSE
    /\ sinceMark = [k \in Keys |-> -1]
    /\ sinceHandled = [k \in Keys |-> -1]
    /\ handledTwice = FALSE
    /\ inRegistry = TRUE
    /\ heartbeat = "on"
    /\ reservoirLeft = reservoir
    /\ refreshIn = reservoirRefreshInterval
    /\ nextRequestIn = 0
    /\ running = 0
    /\ jobPhase = "idle"
    /\ jobTimer = 0
    /\ retryCount = 0
    /\ mState = <<>>
    /\ mError = <<>>
    /\ mAttempts = <<>>
    /\ retriedOnOther = FALSE
    /\ enqueuedWhileNotReady = FALSE
    /\ sentWhileNotReady = FALSE
    /\ windowAge = -1
    /\ windowStarts = 0
    /\ ready = FALSE
    /\ readyResolvers = {}
    /\ transport = "OPENING"
    /\ readyEventDue = FALSE
    /\ callPc = [c \in Callers |-> "idle"]
    /\ callAnswer = [c \in Callers |-> "none"]
    /\ fallbackCheckCompleted = FALSE
    /\ fallbackCheckInFlight = FALSE
    /\ awaitingQrScan = FALSE
    /\ authenticatedReadyFallbackTimer = "null"
    /\ checkPc = "off"
    /\ authFallbackPc = "idle"
    /\ fallbackStateRetryCount = 0
    /\ fallbackReinitCount = 0
    /\ unknownStateRetryCount = 0
    /\ connectInFlight = "no"
    /\ recoveryCalls = 0
    /\ lastRecovery = "none"
    /\ lastDisconnectReason = "null"
    /\ lastAuthFailureAt = "null"
    /\ lastQrAt = "null"
    /\ clearAuthSession = FALSE
    /\ fallbackTimers = 0
    /\ cooldownTimers = 0
    /\ webClient = "null"
    /\ webIsReady = FALSE
    /\ webIsInitializing = FALSE
    /\ webAuthenticated = FALSE
    /\ webInitRetries = 0
    /\ webReconnectAttempts = 0
    /\ webInitPc = "idle"
    /\ webHandlerPc = "idle"
    /\ webInitTimers = 0
    /\ webQrTimers = 0
    /\ webOwnQrTimer = FALSE
    /\ webState = "CLOSED"
    /\ webReadyDue = FALSE
    /\ webWait = "idle"
    /\ webPollPc = "idle"
    /\ disconnectedSinceQuery = FALSE
    /\ loadedCronModules = {}
    /\ importing = [t \in Triggers |-> {}]
    /\ activations = [m \in Modules |-> 0]
    /\ bucketStatus = [t \in Triggers |-> "none"]
    /\ clients = <<>>
    /\ sessId = [o \in Sessions |-> 0]
    /\ destroyed = {}
    /\ disconnected = {}
    /\ destroyPc = "idle"
    /\ destroyIdx = 0
    /\ lastReturned = 0
    /\ initPromise = "null"
    /\ waClientHandle = "unset"
    /\ compatClient = 0
    /\ createCalls = 0
    /\ initializeCalls = 0
    /\ reqState = [r \in Requests |-> "idle"]
    /\ useResult = [e \in EntryPoints |-> "unused"]

Next ==
    \/ Initialize
    \/ InitializeSucceeds
    \/ InitializeFails
    \/ OnQr
    \/ OnOpen
    \/ \E c \in StatusCodes : OnClose(c)
    \/ \E which \in {"handle", "orphan"} : QrTimeoutFires(which)
    \/ \E which \in {"handle", "orphan"} : ReconnectTimerFires(which)
    \/ Destroy
    \/ \E w \in 1..SessionWaiters : WaitForReady(w)
    \/ \E w \in Waiters : WaitTimeout(w)
    \/ \E w \in Waiters : WaitPollReady(w)

Spec ==
    Init /\ [][Next]_vars

\* Concurrent waitForReady calls against a session whose store and QR code
\* cause no trouble.
WaitCodes ==
    {loggedOut, restartRequired}

NextWait ==
    \/ Initialize
    \/ InitializeSucceeds
    \/ OnOpen
    \/ \E c \in WaitCodes : OnClose(c)
    \/ \E which \in {"handle", "orphan"} : QrTimeoutFires(which)
    \/ \E which \in {"handle", "orphan"} : ReconnectTimerFires(which)
    \/ Destroy
    \/ \E w \in Waiters : WaitForReady(w)
    \/ \E w \in Waiters : WaitTimeout(w)
    \/ \E w \in Waiters : WaitPollReady(w)

SpecWait ==
    Init /\ [][NextWait]_vars

\* The dispatch queue of one registered client: single sends that may fail,
\* a session that opens and is logged out, the service's destroy.
NextQueue ==
    \/ InitializeClient
    \/ InitializeSucceeds
    \/ OnOpen
    \/ OnClose(loggedOut)
    \/ ServiceDestroy
    \/ SendBatch(1, QueueMsgs)
    \/ Execute
    \/ \E outcome \in {"ok"} \cup SendErrors : TransportCompletes(outcome)
    \/ Refresh
    \/ Elapse

SpecQueue ==
    Init /\ [][NextQueue]_vars

\* A batch of reservoir + 1 messages sent back to back over a transport that
\* answers at once.
NextBurst ==
    \/ InitializeClient
    \/ InitializeSucceeds
    \/ OnOpen
    \/ ServiceDestroy
    \/ SendBatch(MaxMsgs, MaxMsgs)
    \/ Execute
    \/ TransportCompletes("ok")
    \/ Refresh
    \/ ElapseBetweenSends

SpecBurst ==
    Init /\ [][NextBurst]_vars

\* A ready session over a transport that answers a send with success or with a
\* rate-limit error.
NextRateLimit ==
    \/ InitializeClient
    \/ InitializeSucceeds
    \/ OnOpen
    \/ SendBatch(1, RetryMsgs)
    \/ Execute
    \/ \E outcome \in {"ok", "rate_limit"} : TransportCompletes(outcome)
    \/ Refresh
    \/ Elapse

SpecRateLimit ==
    Init /\ [][NextRateLimit]_vars

\* The deduplicator of a living service under direct calls.
NextDedup ==
    \/ \E k \in Keys : CallIsDuplicate(k)
    \/ \E k \in Keys : CallMarkProcessed(k)
    \/ CleanupSweep
    \/ Tick
    \/ ElapseToSweep

SpecDedup ==
    Init /\ [][NextDedup]_vars

\* Inbound messages of a session that connects, loses its connection and
\* reconnects.
NextInbound ==
    \/ InitializeClient
    \/ InitializeSucceeds
    \/ OnOpen
    \/ OnClose(connectionLost)
    \/ \E which \in {"handle", "orphan"} : ReconnectTimerFires(which)
    \/ ServiceDestroy
    \/ \E k \in 1..InboundKeys : HandleIncomingMessage(k)
    \/ \E k \in 1..InboundKeys : HandlersDone(k)
    \/ CleanupSweep
    \/ Tick
    \/ ElapseToSweep

SpecInbound ==
    Init /\ [][NextInbound]_vars

\* The one initialize() call of a session that nobody pairs.
FirstInitialize ==
    /\ socket = "null"
    /\ initRetries = 0
    /\ lastError = "none"
    /\ reconnectTimer = "null"
    /\ rcOrphans = 0
    /\ Initialize

\* A session whose QR code is never scanned: every initialize() creates its
\* socket, no connection opens or closes; callers wait for readiness and send.
\* A timer that is pending fires, and an initialize() that is suspended goes on.
NextPairing ==
    \/ FirstInitialize
    \/ InitializeSucceeds
    \/ QrTimeoutFires("handle")
    \/ ReconnectTimerFires("handle")
    \/ \E w \in Waiters : WaitForReady(w)
    \/ \E w \in Waiters : WaitTimeout(w)
    \/ SendBatch(1, QueueMsgs)

SpecPairing ==
    /\ Init
    /\ [][NextPairing]_vars
    /\ WF_vars(InitializeSucceeds)
    /\ WF_vars(QrTimeoutFires("handle"))
    /\ WF_vars(ReconnectTimerFires("handle"))

\* A session nobody waits for and nobody destroys: its connection opens and
\* closes with every status, its timers fire.
NextReconnect ==
    \/ Initialize
    \/ InitializeSucceeds
    \/ InitializeFails
    \/ OnQr
    \/ OnOpen
    \/ \E c \in StatusCodes : OnClose(c)
    \/ \E which \in {"handle", "orphan"} : QrTimeoutFires(which)
    \/ \E which \in {"handle", "orphan"} : ReconnectTimerFires(which)

SpecReconnect ==
    Init /\ [][NextReconnect]_vars

\* The whatsapp-web.js client with one waitForReady caller.
NextWeb ==
    \/ WebInitialize
    \/ WebOldClientDestroyed
    \/ WebInitializeResolves
    \/ WebInitializeRejects
    \/ WebOnAuthenticated
    \/ WebTransportConnects
    \/ WebOnReady
    \/ WebOnDisconnected
    \/ WebOnAuthFailure
    \/ WebQrTimeoutFires
    \/ WebHandlerDestroySettles
    \/ WebInitTimerFires
    \/ WebWaitForReady
    \/ WebWaitTimeout
    \/ WebPollTick
    \/ WebPollAnswers
    \/ WebPollResumes

SpecWeb ==
    Init /\ [][NextWeb]_vars

\* The activation of one cron bucket by its two triggers.
NextCron ==
    \/ \E t \in Triggers : ActivateBucket(t)
    \/ \E t \in Triggers : \E m \in Modules : ImportResolves(t, m)

SpecCron ==
    Init /\ [][NextCron]_vars

\* The service's readiness bookkeeping for one client: waitForClientReady calls
\* against a transport that connects, announces 'ready' and disconnects.
NextReadiness ==
    \/ TransportConnects
    \/ OnReadyEvent
    \/ OnDisconnectedEvent
    \/ \E c \in Callers : WaitForClientReady(c)
    \/ \E c \in Callers : TransportAnswers(c)
    \/ \E c \in Callers : IsReadyResumes(c)
    \/ \E c \in Callers : GetStateResumes(c)
    \/ \E c \in Callers : ReadyTimeoutFires(c)
    \/ \E c \in Callers : CallReturns(c)

SpecReadiness ==
    Init /\ [][NextReadiness]_vars

\* The handlers are registered and the first check is scheduled in one
\* synchronous run (lines 1041-1545), so the client's events come after it.
MonitorStarted ==
    checkPc # "off"

\* The fallback readiness check and the authenticated fallback of one client
\* whose transport connects, disconnects, asks for a QR scan and authenticates.
NextFallbackCheck ==
    \/ StartFallbackCheck
    \/ MonitorStarted /\ TransportConnects
    \/ MonitorStarted /\ OnReadyEvent
    \/ MonitorStarted /\ OnDisconnectedEvent
    \/ MonitorStarted /\ OnQrEvent
    \/ MonitorStarted /\ OnAuthenticatedEvent
    \/ MonitorStarted /\ OnAuthFailureEvent
    \/ QrGraceExpires
    \/ AuthenticatedFallbackFires
    \/ AuthenticatedFallbackResumes
    \/ ConnectAges
    \/ ConnectSettles
    \/ FallbackCheckFires
    \/ FallbackIsReadyResumes
    \/ FallbackGetStateResumes
    \/ CooldownFires

SpecFallbackCheck ==
    Init /\ [][NextFallbackCheck]_vars

\* The registry under createClient calls and WAService.destroy() calls, whose
\* awaits let the createClient calls in between.
NextRegistry ==
    \/ \E id \in ClientIds : CreateClient(id)
    \/ ServiceDestroyStarts
    \/ ServiceDestroyNextClient
    \/ ServiceDestroyNextQueue

SpecRegistry ==
    Init /\ [][NextRegistry]_vars

\* The service module as given: evaluated once, then used through its exports
\* while clients are created and the service is destroyed.
NextCompat ==
    \/ ModuleLoads
    \/ \E outcome \in {"fulfilled", "rejected"} : InitializationSettles(outcome)
    \/ \E e \in {"waClient.sendMessage", "waClient.waitForWaReady"} : UseWaClient(e)
    \/ CallWaitForWaReady
    \/ \E id \in ClientIds : CreateClient(id)
    \/ ServiceDestroyStarts
    \/ ServiceDestroyNextClient
    \/ ServiceDestroyNextQueue

SpecCompat ==
    Init /\ [][NextCompat]_vars

\* Explicit initialization requests, next to createClient calls and destroy().
NextInitService ==
    \/ \E r \in Requests : InitializeWAService(r)
    \/ \E outcome \in {"fulfilled", "rejected"} : InitializationSettles(outcome)
    \/ \E id \in ClientIds : CreateClient(id)
    \/ ServiceDestroyStarts
    \/ ServiceDestroyNextClient
    \/ ServiceDestroyNextQueue

SpecInitService ==
    Init /\ [][NextInitService]_vars

\* ------------------------------------------------------------------ claims
\* A timer callback calls initialize() and the call starts an attempt.
TimerStartsAttempt ==
    /\ initInFlight' = initInFlight + 1
    /\ reconnectTimer' # reconnectTimer \/ rcOrphans' # rcOrphans

\* C1: once a terminal disconnect (LOGGED_OUT, FORBIDDEN, MULTIDEVICE_MISMATCH,
\* CONNECTION_REPLACED, BAD_SESSION) was handled, in whatever session state, no
\* timer starts an initialization attempt until an external initialize() call.
C1_NoTimerInitAfterTerminal ==
    [][term # "none" => ~TimerStartsAttempt]_vars

\* C2: after a terminal disconnect of a READY session the session is not ready
\* and no timer is left scheduled, until an external initialize() call.
C2_ReadyTerminalLeavesNoTimer ==
    term = "ready" =>
        /\ ~isReady
        /\ qrTimeoutTimer = "null" /\ reconnectTimer = "null"
        /\ qrOrphans = 0 /\ rcOrphans = 0

\* C3: a waitForReady call that is pending when a terminal 'disconnected' is
\* emitted is rejected at once, with that reason in its message.
C3_TerminalRejectsPendingWait ==
    \A w \in Waiters :
        wTermSeen[w] # "none" => wState[w] = "rejected" /\ wReason[w] = wTermSeen[w]

\* C4: a waitForReady call is never rejected for a reconnectable reason
\* (RESTART_REQUIRED, CONNECTION_CLOSED, CONNECTION_LOST, TIMED_OUT,
\* UNAVAILABLE_SERVICE, UNKNOWN): it is rejected for terminal reasons only.
C4_NoRejectOnReconnectable ==
    \A w \in Waiters : wState[w] = "rejected" => wReason[w] \in noReconnectReasons

\* C5: whenever the session is READY, by the open event or by the fallback
\* poll, the reconnect retry counter is 0.
C5_ReadyMeansNoAttempts ==
    isReady => reconnectAttempts = 0

\* READY was reached again after reconnectable disconnects.
C5_Witness ==
    isReady /\ transientSeen /\ reconnectAttempts = 0

\* C6: at most one initialize() invocation is in progress at any time.
C6_SingleInitialization ==
    initInFlight <= 1

\* C7: a send while the session is not READY is refused and never enters the
\* limiter, and the transport's send is invoked only while READY.
C7_NotReadyNeverSent ==
    /\ ~enqueuedWhileNotReady
    /\ ~sentWhileNotReady
    /\ \A m \in Msgs : mState[m] = "refused" => mAttempts[m] = 0

\* A send was refused while not READY and another one reached the transport.
C7_Witness ==
    /\ \E m \in Msgs : mState[m] = "refused" /\ mError[m] = "not_ready"
    /\ \E m \in Msgs : mState[m] = "resolved"

\* C8: at most `reservoir` transport sends start within windowMs of the first
\* one: send number reservoir + 1 starts at least windowMs after the first.
C8_WindowHoldsCapacity ==
    windowStarts <= reservoir

\* C9: an accepted message that has not settled always has a pending limiter
\* event that moves it on: its job holds the slot, or a token or the next
\* reservoir refresh will start it.
C9_NeverPendingForever ==
    (\E m \in Msgs : mState[m] = "queued") =>
        running # 0 \/ reservoirLeft >= 1 \/ heartbeat = "on"

\* C10 as stated: the limiter retries a job only after a rate-limit error.
C10_OnlyRateLimitRetries ==
    ~retriedOnOther

\* C10 amended: every failed attempt is retried whatever its error, so a
\* message is rejected only by its attempt number maxRetries + 1.
C10_RejectAfterAllRetries ==
    \A m \in Msgs :
        /\ mAttempts[m] <= maxRetries + 1
        /\ mState[m] = "rejected" => mAttempts[m] = maxRetries + 1

\* A message was rejected with an error that is no rate limit, after retries.
C10_Witness ==
    /\ retriedOnOther
    /\ \E m \in Msgs : mState[m] = "rejected" /\ mError[m] = "other"

\* C11: a message whose sends keep failing with a rate-limit error is attempted
\* at most 1 + maxRetries times, the wait before retry n is retryDelayUnit * n,
\* and the failure of retry maxRetries rejects the message with that error.
C11_RateLimitBackoff ==
    [][/\ retryCount' = retryCount + 1 =>
            /\ retryCount' <= maxRetries
            /\ jobPhase' = "scheduled"
            /\ jobTimer' = retryDelayUnit * retryCount'
       /\ \A m \in DOMAIN mState' :
            /\ mAttempts'[m] <= maxRetries + 1
            /\ mState'[m] = "rejected" =>
                   mAttempts'[m] = maxRetries + 1 /\ mError'[m] = "rate_limit"]_vars

\* A message was rejected with the rate-limit error of its last retry.
C11_Witness ==
    \E m \in Msgs :
        /\ mState[m] = "rejected"
        /\ mError[m] = "rate_limit"
        /\ mAttempts[m] = maxRetries + 1

\* C12: at most one transport send of the session is in flight, and sends start
\* in submission order: while an accepted message has not started, also while an
\* earlier one waits for a retry, no message submitted after it has started.
C12_OneInFlightInOrder ==
    /\ Cardinality({m \in Msgs : mState[m] = "running"}) <= maxConcurrent
    /\ \A m \in Msgs :
          mState[m] = "queued" =>
              \A k \in Msgs :
                  k > m => mAttempts[k] = 0 /\ mState[k] \in {"queued", "refused"}

\* A message waits for its retry while two later messages are queued behind it.
C12_Witness ==
    /\ jobPhase = "scheduled"
    /\ retryCount >= 1
    /\ Cardinality(Queued(mState)) >= 2

\* isDuplicate answers for a key marked at most ttl ago, and for no other key.
Fresh(k) ==
    sinceMark[k] >= 0 /\ sinceMark[k] <= ttl

\* C13: isDuplicate(k) is true exactly when k was marked and at most ttl has
\* passed since its last markProcessed: true right after the mark and at
\* ttl - 1, false at ttl + 1 and for a key never marked, whether the sweep has
\* deleted the entry or not.
C13_DuplicateIffFresh ==
    /\ \A k \in Keys : isDuplicate(k) <=> Fresh(k)
    /\ asked # 0 => (answer <=> Fresh(asked))

\* isDuplicate answered false at ttl + 1, before any sweep has seen the entry.
C13_Witness ==
    /\ asked # 0
    /\ ~answer
    /\ sinceMark[asked] = ttl + 1
    /\ cleanupIn > 0

\* C14: the message handlers are invoked at most once for a key (session id,
\* message id) within ttl: a second event with the key, arriving while the
\* handlers of the first run, after they returned or after a reconnect, invokes
\* no handler.
C14_HandledOncePerKey ==
    ~handledTwice

\* A second event with the key was dropped while the handlers of the first run.
C14_Witness ==
    /\ asked # 0
    /\ answer
    /\ asked \in handling
    /\ sinceHandled[asked] >= 0
    /\ sinceHandled[asked] <= ttl

\* C15: a session that is authenticated and not ready, whose state query can
\* report CONNECTED, is made ready by the fallback poll within one poll
\* interval: a state-check interval is active whenever the session is so.
C15_PollWhileAuthenticated ==
    (authenticated /\ ~isReady /\ "CONNECTED" \in GetStateResults) => wPolls # {}

\* C16: settling one waitForReady call removes only what that call registered:
\* a call that is still pending keeps its 'ready' and 'disconnected' listeners.
C16_PendingKeepsListeners ==
    \A w \in Waiters :
        wState[w] = "pending" => w \in readyListeners /\ w \in disconnectedListeners

\* C17: the message a waitForReady timeout rejects with holds the current
\* state, an authentication-status clause, the last recorded error when there
\* is one, and the remediation steps, whatever the flags are when it fires.
C17_TimeoutMessageComplete ==
    [][\A w \in Waiters :
          (wState[w] = "pending" /\ wState'[w] = "timeout") =>
              /\ TimeoutMessage.state \in {"initializing", "unknown"}
              /\ TimeoutMessage.authentication # "absent"
              /\ lastError # "none" => TimeoutMessage.lastError = lastError
              /\ TimeoutMessage.remediation = "causes_and_suggestions"]_vars

\* A reconnectable close is handled when the attempts are used up.
TransientCloseAtMax ==
    /\ reconnectAttempts >= maxReconnectAttempts
    /\ \E c \in StatusCodes :
          /\ ShouldReconnect(c)
          /\ ReasonOf(c) \notin noReconnectReasons
          /\ OnClose(c)

\* C18: a reconnectable disconnect that finds reconnectAttempts at
\* maxReconnectAttempts records a fatal error on the session (and emits it),
\* and schedules no reconnect.
C18_ExhaustedReconnectIsFatal ==
    [][TransientCloseAtMax =>
          /\ lastError' # "none"
          /\ reconnectTimer' = reconnectTimer
          /\ rcOrphans' = rcOrphans]_vars

\* C19: a failed initialize() schedules the next attempt itself while fewer than
\* maxInitRetries retries are used; the failure that finds them used up records
\* the error (and emits init_failed), and leaves no attempt scheduled.
C19_InitRetriesBounded ==
    [][InitializeFails =>
          IF initRetries < maxInitRetries
          THEN initRetries' = initRetries + 1 /\ reconnectTimer' = "pending"
          ELSE /\ lastError' = "init"
               /\ reconnectTimer' = "null"
               /\ rcOrphans' = 0]_vars

\* C20: when pairing never completes, the re-initializations that QR-scan
\* timeouts trigger come to an end: once initialize() has run, the session
\* reaches the timeout failure (init_failed, the timeout error recorded) with
\* no further attempt scheduled.
C20_QrTimeoutsEndInFailure ==
    (initInFlight > 0) ~>
        (lastError = "timeout" /\ reconnectTimer = "null" /\ rcOrphans = 0
            /\ initInFlight = 0)

\* C21: when destroy() returns, no timer of the session is pending: no QR
\* timeout, no init-retry or reconnect timer, no waitForReady timeout or poll.
C21_DestroyLeavesNoTimer ==
    [][Destroy =>
          /\ qrTimeoutTimer' = "null" /\ qrOrphans' = 0
          /\ reconnectTimer' = "null" /\ rcOrphans' = 0
          /\ wTimers' = {} /\ wPolls' = {}]_vars

\* The cases in which initialize() returns at once (lines 906-914).
InitializeReturnsAtOnce ==
    isInitializing \/ isReady

\* C22: destruction is final: after destroy() an initialize() call starts no
\* attempt, so that nothing makes the session initializing or ready again.
C22_DestroyBlocksInitialize ==
    [][Destroy => InitializeReturnsAtOnce']_vars

\* A send attempt of the running job fails in this step: the transport send
\* that was in flight ends without resolving the message, or the attempt is
\* refused before it reaches the socket.
SendFails ==
    /\ running # 0
    /\ \/ /\ jobPhase = "executing"
          /\ jobPhase' # "executing"
          /\ mState'[running] # "resolved"
       \/ /\ jobPhase = "scheduled"
          /\ mAttempts' # mAttempts
          /\ jobPhase' # "executing"

\* C26: a send that fails, with retries left or not, leaves the session as it
\* was: its flags, counters and lastError keep their values, and no reconnect or
\* re-initialization timer is set.
C26_FailedSendKeepsSession ==
    [][SendFails => UNCHANGED clientVars]_vars

\* A message was rejected after its last retry while the session stays ready
\* with no error recorded and no timer set.
C26_Witness ==
    /\ \E m \in Msgs : mState[m] = "rejected" /\ mError[m] = "other"
    /\ isReady
    /\ lastError = "none"
    /\ reconnectTimer = "null"
    /\ reconnectAttempts = 0

\* C27: when a disconnect rejects a waiting caller, isReady and authenticated
\* are false by then, and when initialize() throws with its retries used up,
\* the error is recorded and the session no longer initializing.
C27_FlagsSetBeforeRejection ==
    [][/\ \A w \in Waiters :
            (wState[w] = "pending" /\ wState'[w] = "rejected") =>
                ~isReady' /\ ~authenticated'
       /\ (InitializeFails /\ initRetries >= maxInitRetries) =>
            lastError' = "init" /\ ~isInitializing']_vars

\* A close of the session's socket has rejected a waiting caller.
C27_Witness ==
    /\ \E w \in Waiters : wState[w] = "rejected"
    /\ socket = "ended"
    /\ ~isReady
    /\ ~authenticated
    /\ ~isInitializing

\* C30: once the session is ready, by whatever path, no state-check interval
\* of a waitForReady call is active any more.
C30_ReadyStopsPolls ==
    isReady => wPolls = {}

\* C29: a waitForClientReady call never misses readiness: no call is left
\* registered and waiting for its timeout while the service already holds the
\* client as ready, whenever the readiness arrived (before the call, or while
\* its inference check was awaiting the transport).
C29_NoCallMissesReadiness ==
    \A c \in Callers : callPc[c] = "pending" => ~ready

\* C23 (its second half): once maxFallbackReinitAttempts escalations have been
\* made without a connected observation (the reinit counter is at its maximum,
\* which only a connected observation or the cooldown's expiry resets), no step
\* makes a reinitialize or reconnect call; a reinit forced by a connect that has
\* been in flight for too long is left aside.
C23_NoRecoveryUntilCooldownOver ==
    [][(fallbackReinitCount >= maxFallbackReinitAttempts /\ connectInFlight # "long")
          => recoveryCalls' = recoveryCalls]_vars

\* A session that was created and on which destroy() was not called.
LiveSessions ==
    {o \in Sessions : sessId[o] # 0 /\ o \notin destroyed}

RegisteredSessions ==
    {clients[i] : i \in 1..Len(clients)}

\* C28: no id ever has two live sessions, and once no WAService.destroy() is in
\* progress every registered session is live and every live session is
\* registered, however createClient calls interleaved with the destroy().
C28_RegistrySerialized ==
    /\ \A o, q \in LiveSessions : sessId[o] = sessId[q] => o = q
    /\ destroyPc = "idle" => RegisteredSessions = LiveSessions

\* C24: a use of the waClient handle or of waitForWaReady made before the
\* initialization was started ends in the 'not initialized' error; one made
\* after the initialization has completed, with the initialized client still
\* registered, reaches that client.
C24_HandlesFailFastThenWork ==
    [][\A e \in EntryPoints :
          useResult'[e] # useResult[e] =>
             /\ initPromise = "null" => useResult'[e] = "not initialized"
             /\ (initPromise = "fulfilled" /\ GetClient(1) # 0)
                   => useResult'[e] = "reached client"]_vars

\* C25: however many initializeWAService calls are made, and whether or not the
\* first one has completed, createClient and initializeClient are called once
\* for each of the two clients and every call holds the one initialization.
C25_InitializedOnce ==
    /\ createCalls \in {0, 2}
    /\ initializeCalls = createCalls
    /\ \A r \in Requests : reqState[r] # "idle" => (reqState[r] = initPromise /\ createCalls = 2)

C25_Witness ==
    /\ \E r, q \in Requests : r # q /\ reqState[r] = "pending" /\ reqState[q] = "pending"
    /\ createCalls = 2
    /\ initializeCalls = 2

\* C31: while the last QR was issued less than the grace window ago, no path of
\* the monitor (state-retry escalation, connect-in-flight timeout, authenticated
\* timeout) calls reconnect or reinitialize, with or without a session clear.
C31_GraceWindowSuppressesRecovery ==
    [][lastQrAt = "recent" => recoveryCalls' = recoveryCalls]_vars

\* C32: while a connect is in flight for less than the force-reinit duration no
\* monitor path calls reconnect or reinitialize, and a check that finds the
\* connect in flight for longer than that, the client being neither ready nor
\* its check completed, calls reinitialize.
C32_ConnectInFlightSuppressesThenForces ==
    [][/\ connectInFlight = "short" => recoveryCalls' = recoveryCalls
       /\ (FallbackCheckFires /\ connectInFlight = "long" /\ ~ready
              /\ ~fallbackCheckCompleted)
             => (recoveryCalls' = recoveryCalls + 1 /\ lastRecovery' = "reinitialize")]_vars

\* C33: a recovery call of the monitor clears the stored session only when an
\* auth-failure indicator was present before the call.
C33_ClearOnlyWithAuthIndicator ==
    [][(recoveryCalls' # recoveryCalls /\ clearAuthSession') => HasAuthFailureIndicator]_vars

\* What keeps the monitor of a client going: a pending timeout of the check, a
\* running check callback, or a pending cooldown timeout.
MonitoringPending ==
    \/ fallbackTimers > 0
    \/ checkPc \in {"isReady", "getState"}
    \/ cooldownTimers > 0

\* C34: once the monitor is started, a client that is not ready always has a
\* check pending or running, or a cooldown pending, also after it was ready and
\* disconnected.
C34_MonitoringNeverStops ==
    (checkPc # "off" /\ ~ready) => MonitoringPending

\* C40: at most one timeout of the fallback check is pending for the client.
C40_OneFallbackTimer ==
    fallbackTimers <= 1

\* A timeout of the check is pending while fallbackCheckInFlight has been
\* reset, recovery calls having been made.
C40_Witness ==
    /\ fallbackTimers = 1
    /\ ~fallbackCheckInFlight
    /\ ~fallbackCheckCompleted
    /\ recoveryCalls >= maxFallbackReinitAttempts

\* The reasons of the classification table.
TerminalReasons ==
    {"LOGGED_OUT", "FORBIDDEN", "MULTIDEVICE_MISMATCH", "CONNECTION_REPLACED", "BAD_SESSION"}

TransientReasons ==
    {"CONNECTION_CLOSED", "CONNECTION_LOST", "TIMED_OUT", "RESTART_REQUIRED",
     "UNAVAILABLE_SERVICE", "UNKNOWN"}

\* C35: whatever status the close handler receives, its reason is terminal or
\* transient as the table says, an unrecognized or absent status is UNKNOWN, a
\* terminal reason schedules no reconnect, a transient one (UNKNOWN included)
\* schedules one while attempts are left, and shouldReconnect is false exactly
\* for the reasons of _handleReconnection's no-reconnect list.
C35_ReconnectDecisionFollowsTable ==
    [][\A c \in StatusCodes : OnClose(c) =>
          /\ ReasonOf(c) \in TerminalReasons \cup TransientReasons
          /\ c \in {unrecognizedCode, undefinedCode} => ReasonOf(c) = "UNKNOWN"
          /\ ShouldReconnect(c) <=> ReasonOf(c) \notin noReconnectReasons
          /\ ReasonOf(c) \in TerminalReasons =>
                /\ reconnectAttempts' = reconnectAttempts
                /\ reconnectTimer' = reconnectTimer
                /\ rcOrphans' = rcOrphans
          /\ (ReasonOf(c) \in TransientReasons /\ reconnectAttempts < maxReconnectAttempts) =>
                /\ reconnectAttempts' = reconnectAttempts + 1
                /\ reconnectTimer' = "pending"]_vars

\* Closes of both kinds have been handled: a terminal one, and a transient
\* one that scheduled a reconnect.
C35_Witness ==
    /\ term # "none"
    /\ transientSeen
    /\ reconnectAttempts > 0

\* C38: no pending timer that calls initialize() is left behind by an
\* overwritten reconnectTimer, so at most one is pending and reconnectTimer
\* references it.
C38_OneInitializeTimer ==
    rcOrphans = 0

\* C36: a poll callback that resumes after 'disconnected' was handled since its
\* query leaves the client not ready.
C36_PollNeverMarksReadyOnStaleState ==
    [][(disconnectedSinceQuery /\ webPollPc # "idle" /\ webPollPc' = "idle")
          => ~webIsReady']_vars

\* C37: isReady implies a client object, so sendMessage and getInfo, which test
\* isReady only, have one to call.
C37_ReadyImpliesClient ==
    webIsReady => webClient # "null"

====
